---- MODULE Spec2Model ----
(***************************************************************************)
(* SafePath SF: path risk scoring and ranking.                             *)
(*                                                                         *)
(* The backend (src/backend/app: main.py, risk_scorer.py, data_fetcher.py) *)
(* and the standalone scorer (src/api/path_risk_analysis.py, whose scoring *)
(* code src/path_risk_analysis.py repeats) are modelled side by side.      *)
(*                                                                         *)
(* Numbers.  Coordinates are integers on a grid of 0.0005 degrees, so the  *)
(* merge threshold of 0.001 degrees is 2.  One grid step is taken as       *)
(* 0.05 km, so d^2/0.02 (d in km) is d2/8 (d2 the squared grid distance).  *)
(* Times are whole hours.  A risk value r of the code is held as           *)
(* r * RiskUnit, RiskUnit = 24^2 * FactorScale: the ReLU term is held      *)
(* times 24 and the distance factor times FactorScale.                     *)
(***************************************************************************)
EXTENDS Integers, Sequences, FiniteSets, TLC

VARIABLES
    crime_data,       \* DataSFetcher.crime_data
    incidents_311,    \* DataSFetcher.incidents_311
    last_fetch_time,  \* DataSFetcher.last_fetch_time
    pc,               \* where the handler calculate_routes stands
    routes,           \* calculate_routes: the candidate routes
    data,             \* calculate_routes: what get_data() returned
    analyzed_routes,  \* calculate_routes: one entry per analysed route
    top_3_routes,     \* calculate_routes: the response's routes
    polypaths,        \* find_lowest_risk_paths: the candidate paths
    path_risks,       \* find_lowest_risk_paths: all paths, sorted
    safest_paths,     \* find_lowest_risk_paths: the first three
    data_cache,       \* api/path_risk_analysis.py: data_cache
    api_status,       \* analyze_paths: "none", "ok" or "error"
    call,             \* a direct call of a scoring function: its arguments
    result,           \* what that call returned
    now,              \* the hour datetime.now() gives
    fetch_pc,         \* where the scheduler's run of fetch_all_data stands
    data_during       \* fetch_pc at the moment get_data() read the lists

vars == <<crime_data, incidents_311, last_fetch_time, pc, routes, data,
          analyzed_routes, top_3_routes, polypaths, path_risks, safest_paths,
          data_cache, api_status, call, result, now, fetch_pc, data_during>>

backend_vars == <<crime_data, incidents_311, last_fetch_time, pc, routes, data,
                  analyzed_routes, top_3_routes>>

api_vars == <<polypaths, path_risks, safest_paths, data_cache, api_status>>

call_vars == <<call, result>>

fetch_vars == <<fetch_pc, data_during>>

---------------------------------------------------------------------------
(* Text: Python str, with upper() and the substring test `in`.             *)

LowerCase == <<"a","b","c","d","e","f","g","h","i","j","k","l","m",
               "n","o","p","q","r","s","t","u","v","w","x","y","z">>

UpperCase == <<"A","B","C","D","E","F","G","H","I","J","K","L","M",
               "N","O","P","Q","R","S","T","U","V","W","X","Y","Z">>

UpperChar(c) ==
    IF \E i \in 1..Len(LowerCase) : LowerCase[i] = c
    THEN UpperCase[CHOOSE i \in 1..Len(LowerCase) : LowerCase[i] = c]
    ELSE c

RECURSIVE Upper(_)
Upper(s) ==
    IF Len(s) = 0 THEN ""
    ELSE UpperChar(SubSeq(s, 1, 1)) \o Upper(SubSeq(s, 2, Len(s)))

\* `sub in s`
Contains(sub, s) ==
    \E i \in 1..(Len(s) - Len(sub) + 1) : SubSeq(s, i, i + Len(sub) - 1) = sub

\* The texts the inputs below are built from.  What the code computes from
\* a text alone is computed once for each of them (the tables below) and
\* looked up; any other text is computed in place.
KnownTexts ==
    {"", "ROBBERY", "Burglary", "SUSPICIOUS PERSON", "TRAFFIC STOP",
     "Encampments", "Encampment", "Aggressive/Threatening", "Graffiti",
     "Open", "open", "Closed", "closed", "CLOSED", "cLoSeD",
     "Closed ", "Close", "In Progress"}

UpperTable == [s \in KnownTexts |-> Upper(s)]

\* s.upper()
upper(s) == IF s \in KnownTexts THEN UpperTable[s] ELSE Upper(s)

---------------------------------------------------------------------------
(* Incident records.  A dict key that may be missing or null is held as a  *)
(* tagged value; a text key is held as the string get(key, "") returns.    *)

\* location value: key absent, null, or {"coordinates": c}, c = [lon, lat, ...]
NoLocation   == [k |-> "absent", c |-> <<>>]
NullLocation == [k |-> "null",   c |-> <<>>]
Coordinates(c) == [k |-> "val", c |-> c]
PointAt(lat, lng) == Coordinates(<<lng, lat>>)

\* timestamp value: key absent, null, a string fromisoformat rejects,
\* or the ISO string of hour h
NoTime      == [k |-> "absent", h |-> 0]
NullTime    == [k |-> "null",   h |-> 0]
BadTime     == [k |-> "bad",    h |-> 0]
TimeAt(h)   == [k |-> "iso",    h |-> h]

\* flat Latitude / Longitude keys (both or neither)
NoFlat       == [k |-> "absent", lat |-> 0, lng |-> 0]
Flat(lat, lng) == [k |-> "val", lat |-> lat, lng |-> lng]

\* no "_lat"/"_lng" key, no "_merged_count" key
NoKey == -1

Incident(text, point, time, status) ==
    [text |-> text,          \* call_type_original_desc / service_name
     point |-> point,        \* intersection_point / point_geom
     time |-> time,          \* entry_datetime / requested_datetime
     status |-> status,      \* status / status_description
     flat |-> NoFlat,        \* Latitude, Longitude
     category |-> "",        \* Category
     _lat |-> NoKey, _lng |-> NoKey, _merged_count |-> NoKey]

---------------------------------------------------------------------------
(* Scales.                                                                 *)

FactorScale == 10^4
RiskUnit == 24 * 24 * FactorScale

\* float('inf') as a squared distance
Infinity == 10^9

---------------------------------------------------------------------------
(* risk_scorer.py: class RiskScorer.                                       *)

\* dict order is insertion order; assign_risk returns at the first match
CRIME_RISK_WEIGHTS ==
    << <<"EXPLOSIVE FOUND", 3>>, <<"EXPLOSION", 3>>, <<"ROBBERY", 3>>,
       <<"STRONGARM ROBBERY", 3>>, <<"ASSAULT", 3>>, <<"BATTERY", 3>>,
       <<"PURSE SNATCH", 2>>, <<"INDECENT EXPOSURE", 2>>,
       <<"FIGHT W/WEAPONS", 2>>, <<"FIGHT NO WEAPON", 2>>,
       <<"PERSON BREAKING IN", 2>>, <<"BURGLARY", 2>>,
       <<"SUSPICIOUS PERSON", 1>>, <<"THREATS / HARASSMENT", 1>>,
       <<"THREATS", 1>>, <<"HARASSMENT", 1>> >>

INCIDENT_311_RISK_WEIGHTS ==
    << <<"ENCAMPMENT", 1>>, <<"ENCAMPMENTS", 1>>,
       <<"AGGRESSIVE/THREATENING", 1>>, <<"AGGRESSIVE", 1>>,
       <<"THREATENING", 1>> >>

\* 0.001 degrees, in grid steps of 0.0005 degrees
ENCAMPMENT_MERGE_THRESHOLD == 2

\* for key, weight in table.items(): if key in text: return weight; return 0
FirstMatch(table, text, default) ==
    LET hits == {i \in 1..Len(table) : Contains(table[i][1], text)}
    IN  IF hits = {} THEN default
        ELSE table[CHOOSE i \in hits : \A j \in hits : i <= j][2]

\* assign_risk, of the text it reads
risk_of_text(text, incident_type) ==
    IF incident_type = "crime"
    THEN FirstMatch(CRIME_RISK_WEIGHTS, upper(text), 0)
    ELSE FirstMatch(INCIDENT_311_RISK_WEIGHTS, upper(text), 0)

RiskTable ==
    [incident_type \in {"crime", "311"} |->
        [s \in KnownTexts |-> risk_of_text(s, incident_type)]]

assign_risk(incident, incident_type) ==
    IF incident.text \in KnownTexts THEN RiskTable[incident_type][incident.text]
    ELSE risk_of_text(incident.text, incident_type)

EncampmentTable == [s \in KnownTexts |-> Contains("ENCAMPMENT", upper(s))]

\* "ENCAMPMENT" in text.upper()
names_encampment(text) ==
    IF text \in KnownTexts THEN EncampmentTable[text]
    ELSE Contains("ENCAMPMENT", upper(text))

\* geopy's geodesic(a, b), squared, in grid steps; a, b are (lat, lng)
geodesic2(a, b) == (a[1] - b[1]) * (a[1] - b[1]) + (a[2] - b[2]) * (a[2] - b[2])

Min(a, b) == IF a <= b THEN a ELSE b
Max(a, b) == IF a >= b THEN a ELSE b

RECURSIVE MinOverPath(_, _, _)
MinOverPath(incident_coords, path, min_dist) ==
    IF path = <<>> THEN min_dist
    ELSE MinOverPath(incident_coords, Tail(path),
                     Min(min_dist, geodesic2(incident_coords, Head(path))))

\* the distance to the path's first vertex alone
distance_to_first_vertex(incident_coords, path) ==
    IF Len(path) < 2 THEN Infinity
    ELSE geodesic2(incident_coords, path[1])

\* the squared minimum distance; Infinity for float('inf')
min_distance_to_path(incident_coords, path) ==
    IF Len(path) < 2 THEN Infinity
    ELSE MinOverPath(incident_coords, path, Infinity)

\* hours; every exception of the try block (no string, a string that does
\* not parse) ends in `return 0`
calculate_time_since_incident(incident_time, current_time) ==
    IF incident_time.k = "iso" THEN Max(0, current_time - incident_time.h)
    ELSE 0

\* np.exp(-(d ** 2) / 0.02) * FactorScale for d2 = 0..50
ExpTable ==
    <<
      10000, 8825, 7788, 6873, 6065, 5353, 4724, 4169,
      3679, 3247, 2865, 2528, 2231, 1969, 1738, 1534,
      1353, 1194, 1054, 930, 821, 724, 639, 564,
      498, 439, 388, 342, 302, 266, 235, 208,
      183, 162, 143, 126, 111, 98, 87, 76,
      67, 59, 52, 46, 41, 36, 32, 28,
      25, 22, 19 >>

\* beyond the table only distances of the far point occur (over 4.7 km),
\* where exp underflows to 0.0, as it does for float('inf')
distance_factor(d2) == IF d2 < Len(ExpTable) THEN ExpTable[d2 + 1] ELSE 0

\* relu_term with encampments decaying like every other request
relu_term_encampments_decay(w, t, is_encampment) ==
    IF w = 3 THEN Max(0, 72 - t)
    ELSE Max(0, w * (24 - t))

\* relu_term with the 24 hours of the lower weights for weight 3 too
relu_term_one_cutoff(w, t, is_encampment) ==
    IF is_encampment THEN 24 * w
    ELSE Max(0, w * (24 - t))

\* relu_term * 24, for elapsed hours t
relu_term(w, t, is_encampment) ==
    IF is_encampment THEN 24 * w
    ELSE IF w = 3 THEN Max(0, 72 - t)
    ELSE Max(0, w * (24 - t))

\* risk_value with the severity term not squared
risk_value_unsquared(w, t, is_encampment, d2) ==
    24 * relu_term(w, t, is_encampment) * distance_factor(d2)

\* (relu_term ** 2) * distance_factor, times RiskUnit
risk_value(w, t, is_encampment, d2) ==
    relu_term(w, t, is_encampment) * relu_term(w, t, is_encampment) * distance_factor(d2)

\* One pass of the loop of calculate_risk_score:
\* "skip" (continue), "raise" (an exception leaves the function) or "add".
score_incident(path, incident, incident_type, current_time) ==
    LET point == incident.point
        w == assign_risk(incident, incident_type)
        coords == point.c
        incident_coords == <<coords[2], coords[1]>>
        d == min_distance_to_path(incident_coords, path)
        is_encampment == names_encampment(incident.text)
        t == calculate_time_since_incident(incident.time, current_time)
    IN  IF incident_type = "crime" /\ point.k = "null"
            THEN [op |-> "raise", v |-> 0]     \* None.get("coordinates", [])
        ELSE IF point.k # "val" \/ Len(coords) < 2
            THEN [op |-> "skip", v |-> 0]
        ELSE IF w = 0
            THEN [op |-> "skip", v |-> 0]
        ELSE [op |-> "add", v |-> risk_value(w, t, is_encampment, d)]

RECURSIVE ScoreLoop(_, _, _, _, _)
ScoreLoop(path, incidents, incident_type, current_time, total_risk) ==
    IF incidents = <<>> THEN [raised |-> FALSE, v |-> total_risk]
    ELSE LET s == score_incident(path, Head(incidents), incident_type, current_time)
         IN  IF s.op = "raise" THEN [raised |-> TRUE, v |-> 0]
             ELSE ScoreLoop(path, Tail(incidents), incident_type, current_time,
                            total_risk + s.v)

calculate_risk_score(path, incidents, incident_type, current_time) ==
    ScoreLoop(path, incidents, incident_type, current_time, 0)

---------------------------------------------------------------------------
(* risk_scorer.py: the closed-encampment filter and the merge.             *)

is_encampment_311(incident) == names_encampment(incident.text)

\* the test of the filter without .upper() on the status
is_closed_encampment_exact_case(incident) ==
    is_encampment_311(incident) /\ incident.status = "CLOSED"

\* the test of filter_closed_encampments: `continue` when it holds
is_closed_encampment(incident) ==
    is_encampment_311(incident) /\ upper(incident.status) = "CLOSED"

filter_closed_encampments(incidents) ==
    SelectSeq(incidents, LAMBDA incident : ~is_closed_encampment(incident))

\* a first loop that passes over the encampments an earlier call has marked
RECURSIVE SplitLoopSkippingMarked(_, _, _, _)
SplitLoopSkippingMarked(todo, encampments, other_incidents, touched) ==
    IF todo = <<>>
    THEN [raised |-> FALSE, encampments |-> encampments,
          other_incidents |-> other_incidents, touched |-> touched]
    ELSE LET incident == Head(todo)
             coords == incident.point.c
             marked == [incident EXCEPT !._lat = coords[2], !._lng = coords[1]]
         IN  IF ~is_encampment_311(incident)
                 THEN SplitLoopSkippingMarked(Tail(todo), encampments,
                                              Append(other_incidents, incident),
                                              Append(touched, incident))
             ELSE IF incident.point.k = "null"
                 THEN [raised |-> TRUE, encampments |-> encampments,
                       other_incidents |-> other_incidents,
                       touched |-> touched \o todo]
             ELSE IF incident.point.k = "val" /\ Len(coords) >= 2
                     /\ incident._lat = NoKey
                 THEN SplitLoopSkippingMarked(Tail(todo), Append(encampments, marked),
                                              other_incidents, Append(touched, marked))
             ELSE SplitLoopSkippingMarked(Tail(todo), encampments, other_incidents,
                                          Append(touched, incident))

\* First loop of merge_nearby_encampments.  `touched` is the input list as
\* the loop leaves it: the loop writes "_lat" and "_lng" into the caller's
\* dicts.  An encampment without two coordinates goes to neither list.
RECURSIVE SplitLoop(_, _, _, _)
SplitLoop(todo, encampments, other_incidents, touched) ==
    IF todo = <<>>
    THEN [raised |-> FALSE, encampments |-> encampments,
          other_incidents |-> other_incidents, touched |-> touched]
    ELSE LET incident == Head(todo)
             coords == incident.point.c
             marked == [incident EXCEPT !._lat = coords[2], !._lng = coords[1]]
         IN  IF ~is_encampment_311(incident)
                 THEN SplitLoop(Tail(todo), encampments,
                                Append(other_incidents, incident),
                                Append(touched, incident))
             ELSE IF incident.point.k = "null"     \* None.get("coordinates", [])
                 THEN [raised |-> TRUE, encampments |-> encampments,
                       other_incidents |-> other_incidents,
                       touched |-> touched \o todo]
             ELSE IF incident.point.k = "val" /\ Len(coords) >= 2
                 THEN SplitLoop(Tail(todo), Append(encampments, marked),
                                other_incidents, Append(touched, marked))
             ELSE SplitLoop(Tail(todo), encampments, other_incidents,
                            Append(touched, incident))

\* near in either axis
within_threshold_either_axis(enc1, enc2) ==
    LET lat_diff == IF enc1._lat >= enc2._lat THEN enc1._lat - enc2._lat
                    ELSE enc2._lat - enc1._lat
        lng_diff == IF enc1._lng >= enc2._lng THEN enc1._lng - enc2._lng
                    ELSE enc2._lng - enc1._lng
    IN  lat_diff <= ENCAMPMENT_MERGE_THRESHOLD \/ lng_diff <= ENCAMPMENT_MERGE_THRESHOLD

within_threshold(enc1, enc2) ==
    LET lat_diff == IF enc1._lat >= enc2._lat THEN enc1._lat - enc2._lat
                    ELSE enc2._lat - enc1._lat
        lng_diff == IF enc1._lng >= enc2._lng THEN enc1._lng - enc2._lng
                    ELSE enc2._lng - enc1._lng
    IN  lat_diff <= ENCAMPMENT_MERGE_THRESHOLD /\ lng_diff <= ENCAMPMENT_MERGE_THRESHOLD

\* The inner loop: the indices j, ascending, not yet used, whose encampment
\* is within the threshold of enc1 = encampments[i], after i itself.
cluster_of(encampments, i, used) ==
    <<i>> \o SelectSeq([j \in 1..Len(encampments) |-> j],
                       LAMBDA j : j \notin used /\ j # i
                                  /\ within_threshold(encampments[i], encampments[j]))

\* x.get("requested_datetime", "") as an order: "" first, ISO strings by
\* hour, then the unparsable string ("n/a" sorts after every digit)
sort_key(incident) ==
    IF incident.time.k = "iso" THEN incident.time.h
    ELSE IF incident.time.k = "absent" THEN -(10^6)
    ELSE 10^6

\* cluster.sort(key=..., reverse=True)[0]: the stable sort keeps the
\* earliest of the members that share the greatest key
first_after_sort(encampments, cluster) ==
    LET best == CHOOSE p \in 1..Len(cluster) :
                    /\ \A q \in 1..Len(cluster) :
                           sort_key(encampments[cluster[q]]) <= sort_key(encampments[cluster[p]])
                    /\ \A q \in 1..(p - 1) :
                           sort_key(encampments[cluster[q]]) < sort_key(encampments[cluster[p]])
    IN  encampments[cluster[best]]

RECURSIVE MergeLoop(_, _, _, _)
MergeLoop(encampments, i, used, merged) ==
    IF i > Len(encampments) THEN [raised |-> FALSE, merged |-> merged]
    ELSE IF i \in used THEN MergeLoop(encampments, i + 1, used, merged)
    ELSE LET cluster == cluster_of(encampments, i, used)
             members == {cluster[p] : p \in 1..Len(cluster)}
         IN  IF Len(cluster) > 1
             THEN IF \E j \in members : encampments[j].time.k = "null"
                  THEN [raised |-> TRUE, merged |-> merged]   \* None < str
                  ELSE MergeLoop(encampments, i + 1, used \cup members,
                           Append(merged,
                                  [first_after_sort(encampments, cluster)
                                       EXCEPT !._merged_count = Len(cluster)]))
             ELSE MergeLoop(encampments, i + 1, used \cup members,
                            Append(merged, encampments[i]))

merge_nearby_encampments(incidents) ==
    LET split == SplitLoop(incidents, <<>>, <<>>, <<>>)
        loop == MergeLoop(split.encampments, 1, {}, <<>>)
    IN  IF split.raised THEN [raised |-> TRUE, out |-> <<>>, touched |-> split.touched]
        ELSE IF loop.raised THEN [raised |-> TRUE, out |-> <<>>, touched |-> split.touched]
        ELSE [raised |-> FALSE, out |-> loop.merged \o split.other_incidents,
              touched |-> split.touched]

\* The list `incidents` after its dicts that passed the filter were written
\* to by the merge: `touched` is the filtered list as the merge left it.
RECURSIVE WriteBack(_, _)
WriteBack(incidents, touched) ==
    IF incidents = <<>> THEN <<>>
    ELSE IF is_closed_encampment(Head(incidents))
         THEN <<Head(incidents)>> \o WriteBack(Tail(incidents), touched)
         ELSE <<Head(touched)>> \o WriteBack(Tail(incidents), Tail(touched))

---------------------------------------------------------------------------
(* risk_scorer.py: analyze_route.                                          *)

\* the hour datetime.now() gives when main.py is loaded
StartHour == 100

\* RiskScorer.__init__: self.current_time, set once, when main.py is loaded
self_current_time == StartHour

\* path = [(coord["lat"], coord["lng"]) for coord in path_coords]
path_of(path_coords) == [n \in 1..Len(path_coords) |-> <<path_coords[n].lat, path_coords[n].lng>>]

\* an analysis that merges first and filters the closed encampments after
analyze_route_merge_first(path_coords, crime_list, incident_list) ==
    LET path == path_of(path_coords)
        merge == merge_nearby_encampments(incident_list)
        incidents_311_merged == filter_closed_encampments(merge.out)
        crime_risk == calculate_risk_score(path, crime_list, "crime", self_current_time)
        incident_risk == calculate_risk_score(path, incidents_311_merged, "311",
                                              self_current_time)
    IN  [raised |-> merge.raised \/ crime_risk.raised \/ incident_risk.raised,
         total_risk |-> crime_risk.v + incident_risk.v,
         crime_risk |-> crime_risk.v,
         incident_risk |-> incident_risk.v,
         crime_count |-> Len(crime_list),
         incident_count |-> Len(incident_list),
         filtered_incidents |-> Len(incidents_311_merged),
         merged_incidents |-> Len(incidents_311_merged),
         touched |-> merge.touched,
         incidents_311_merged |-> incidents_311_merged]

\* an analysis whose total leaves the requests' subtotal out
analyze_route_crime_total(path_coords, crime_list, incident_list) ==
    LET path == path_of(path_coords)
        incidents_311_filtered == filter_closed_encampments(incident_list)
        merge == merge_nearby_encampments(incidents_311_filtered)
        touched == WriteBack(incident_list, merge.touched)
        crime_risk == calculate_risk_score(path, crime_list, "crime", self_current_time)
        incident_risk == calculate_risk_score(path, merge.out, "311", self_current_time)
    IN  [raised |-> merge.raised \/ crime_risk.raised \/ incident_risk.raised,
         total_risk |-> crime_risk.v,
         crime_risk |-> crime_risk.v,
         incident_risk |-> incident_risk.v,
         crime_count |-> Len(crime_list),
         incident_count |-> Len(incident_list),
         filtered_incidents |-> Len(incidents_311_filtered),
         merged_incidents |-> Len(merge.out),
         touched |-> touched,
         incidents_311_merged |-> merge.out]

\* The result, or raised; `touched` is incidents_311 as the call leaves it.
analyze_route(path_coords, crime_list, incident_list) ==
    LET path == path_of(path_coords)
        incidents_311_filtered == filter_closed_encampments(incident_list)
        merge == merge_nearby_encampments(incidents_311_filtered)
        touched == WriteBack(incident_list, merge.touched)
        crime_risk == calculate_risk_score(path, crime_list, "crime", self_current_time)
        incident_risk == calculate_risk_score(path, merge.out, "311", self_current_time)
        failed == [raised |-> TRUE, total_risk |-> 0, crime_risk |-> 0,
                   incident_risk |-> 0, crime_count |-> 0, incident_count |-> 0,
                   filtered_incidents |-> 0, merged_incidents |-> 0,
                   touched |-> touched, incidents_311_merged |-> <<>>]
    IN  IF merge.raised \/ crime_risk.raised \/ incident_risk.raised THEN failed
        ELSE [raised |-> FALSE,
              total_risk |-> crime_risk.v + incident_risk.v,
              crime_risk |-> crime_risk.v,
              incident_risk |-> incident_risk.v,
              crime_count |-> Len(crime_list),
              incident_count |-> Len(incident_list),
              filtered_incidents |-> Len(incidents_311_filtered),
              merged_incidents |-> Len(merge.out),
              touched |-> touched,
              incidents_311_merged |-> merge.out]

---------------------------------------------------------------------------
(* main.py: calculate_routes.                                              *)

\* SafetyLevels[s]: the greatest total risk (times RiskUnit) at which
\* 100 * exp(-total_risk / 10) is still at least s, s = 1..100
SafetyLevels ==
    <<
      265257802, 225332525, 201977734, 185407247, 172554178, 162052457,
      153173378, 145481969, 138697667, 132628901, 127139034, 122127179,
      117516719, 113248100, 109274111, 105556692, 102064714, 98772389,
      95658117, 92703623, 89893310, 87213757, 84653335, 82201902,
      79850555, 77591442, 75417599, 73322822, 71301562, 69348833,
      67460139, 65631414, 63858967, 62139436, 60469754, 58847111,
      57268930, 55732839, 54236651, 52778346, 51356051, 49968032,
      48612676, 47288479, 45994043, 44728058, 43489300, 42276624,
      41088953, 39925277, 38784646, 37666164, 36568988, 35492321,
      34435411, 33397545, 32378049, 31376285, 30391645, 29423555,
      28471468, 27534862, 26613242, 25706137, 24813095, 23933689,
      23067507, 22214158, 21373268, 20544476, 19727441, 18921834,
      18127338, 17343653, 16570487, 15807562, 15054610, 14311374,
      13577606, 12853068, 12137531, 11430774, 10732583, 10042755,
      9361090, 8687398, 8021495, 7363202, 6712347, 6068765,
      5432295, 4802780, 4180071, 3564023, 2954493, 2351346,
      1754450, 1163675, 578899, 0 >>

\* int(100 * math.exp(-total_risk / 10)), clamped to 0..100; 100 at risk 0
safety_score(total_risk) ==
    IF total_risk = 0 THEN 100
    ELSE Cardinality({s \in 1..Len(SafetyLevels) : total_risk <= SafetyLevels[s]})

\* an insertion that puts x before the elements of equal total_risk
RECURSIVE InsertBeforeEqual(_, _)
InsertBeforeEqual(sorted, x) ==
    IF sorted = <<>> THEN <<x>>
    ELSE IF x.total_risk <= Head(sorted).total_risk THEN <<x>> \o sorted
    ELSE <<Head(sorted)>> \o InsertBeforeEqual(Tail(sorted), x)

\* a sort on the displayed score, best first: sort(key=safetyScore, reverse=True)
RECURSIVE InsertBySafetyScore(_, _)
InsertBySafetyScore(sorted, x) ==
    IF sorted = <<>> THEN <<x>>
    ELSE IF x.safetyScore > Head(sorted).safetyScore THEN <<x>> \o sorted
    ELSE <<Head(sorted)>> \o InsertBySafetyScore(Tail(sorted), x)

RECURSIVE sort_by_safety_score(_)
sort_by_safety_score(list) ==
    IF list = <<>> THEN <<>>
    ELSE InsertBySafetyScore(sort_by_safety_score(SubSeq(list, 1, Len(list) - 1)),
                             list[Len(list)])

\* list.sort(key=lambda x: x["total_risk"]): stable, ascending.  x goes
\* after the last element whose total_risk is not greater.
RECURSIVE InsertSorted(_, _)
InsertSorted(sorted, x) ==
    IF sorted = <<>> THEN <<x>>
    ELSE IF x.total_risk < Head(sorted).total_risk THEN <<x>> \o sorted
    ELSE <<Head(sorted)>> \o InsertSorted(Tail(sorted), x)

RECURSIVE sort_by_total_risk(_)
sort_by_total_risk(list) ==
    IF list = <<>> THEN <<>>
    ELSE InsertSorted(sort_by_total_risk(SubSeq(list, 1, Len(list) - 1)),
                      list[Len(list)])

\* list[:n]
FirstN(list, n) == SubSeq(list, 1, Min(n, Len(list)))

TopK == 3

\* num_routes of get_graphhopper_routes, as calculate_routes passes it
NumRoutes == 10

\* main.py 216-224: while there are fewer than num_routes routes, a copy of
\* routes[len(routes) % len(routes)], which is routes[0], is appended (its
\* distance and time scaled, its coordinates kept)
RECURSIVE VariationLoop(_, _)
VariationLoop(route_list, num_routes) ==
    IF Len(route_list) < num_routes /\ Len(route_list) > 0
    THEN LET base_route == route_list[(Len(route_list) % Len(route_list)) + 1]
         IN  VariationLoop(Append(route_list, base_route), num_routes)
    ELSE route_list

\* get_graphhopper_routes, of the alternatives the routing service returned
get_graphhopper_routes(alternatives, num_routes) ==
    FirstN(VariationLoop(alternatives, num_routes), num_routes)

\* One pass of the loop over routes (main.py 309-344): the entry appended
\* to analyzed_routes for route number i (from 1).
analyzed_entry(i, route, analysis) ==
    [id |-> i,
     safetyScore |-> safety_score(analysis.total_risk),
     total_risk |-> analysis.total_risk,
     crime_risk |-> analysis.crime_risk,
     incident_risk |-> analysis.incident_risk,
     coordinates |-> [n \in 1..Len(route.coordinates) |->
                         [lat |-> route.coordinates[n][1], lng |-> route.coordinates[n][2]]]]

\* main.py 346-357: sort, take three, renumber them 1..3
top_3_of(analyzed) ==
    LET sorted == sort_by_total_risk(analyzed)
        top == FirstN(sorted, TopK)
    IN  [n \in 1..Len(top) |-> [top[n] EXCEPT !.id = n]]

NoData == [crime_data |-> <<>>, incidents_311 |-> <<>>, fetch_time |-> NoTime]

\* no direct call is made
NoCall == [fn |-> "none", path |-> <<>>, crime_data |-> <<>>, incidents |-> <<>>,
           incident_type |-> "none"]

NoResult == [returned |-> FALSE, raised |-> FALSE, risk |-> 0, total_risk |-> 0,
             crime_risk |-> 0, incident_risk |-> 0, filtered_incidents |-> 0,
             merged_incidents |-> 0, touched |-> <<>>, out |-> <<>>]

Init ==
    /\ crime_data = <<>>
    /\ incidents_311 = <<>>
    /\ last_fetch_time = NoTime
    /\ pc = "start"
    /\ routes = <<>>
    /\ data = NoData
    /\ analyzed_routes = <<>>
    /\ top_3_routes = <<>>
    /\ polypaths = <<>>
    /\ path_risks = <<>>
    /\ safest_paths = <<>>
    /\ data_cache = NoData
    /\ api_status = "none"
    /\ call = NoCall
    /\ result = NoResult
    /\ now = StartHour
    /\ fetch_pc = "idle"
    /\ data_during = "none"

\* data_fetcher.py: fetch_all_data, from lifespan (at start) and from the
\* scheduler's periodic_data_fetch.  fetch_crime_data and fetch_311_data
\* return the filtered response or, when the request fails, the content of
\* the cache file as it is; `stores` are the pairs of lists they may return.
fetch_all_data(stores) ==
    /\ pc \in {"start", "idle"}
    /\ fetch_pc = "idle"
    /\ \E st \in stores :
          /\ crime_data' = st[1]
          /\ incidents_311' = st[2]
    /\ last_fetch_time' = TimeAt(now)
    /\ pc' = "idle"
    /\ UNCHANGED <<routes, data, analyzed_routes, top_3_routes>>
    /\ UNCHANGED api_vars
    /\ UNCHANGED <<call_vars, now, fetch_vars>>

\* main.py 278-304: the routes arrive (get_graphhopper_routes), then
\* get_data(), which fetches when either list is empty.
calculate_routes_begin(route_lists, stores) ==
    /\ pc = "idle"
    /\ \E r \in route_lists : routes' = r
    /\ IF crime_data = <<>> \/ incidents_311 = <<>>
       THEN \E st \in stores :
               /\ crime_data' = st[1]
               /\ incidents_311' = st[2]
               /\ last_fetch_time' = TimeAt(now)
               /\ data' = [crime_data |-> st[1], incidents_311 |-> st[2],
                           fetch_time |-> TimeAt(now)]
       ELSE /\ data' = [crime_data |-> crime_data, incidents_311 |-> incidents_311,
                        fetch_time |-> last_fetch_time]
            /\ UNCHANGED <<crime_data, incidents_311, last_fetch_time>>
    /\ analyzed_routes' = <<>>
    /\ top_3_routes' = <<>>
    /\ pc' = "analyze"
    /\ UNCHANGED api_vars
    /\ UNCHANGED <<call_vars, now, fetch_pc>>
    /\ data_during' = fetch_pc

\* main.py 309-344: one route.  The dicts of data["incidents_311"] are the
\* dicts of data_fetcher.incidents_311, so what the merge writes into them
\* shows in both.  An exception ends the request.
calculate_routes_analyze ==
    /\ pc = "analyze"
    /\ Len(analyzed_routes) < Len(routes)
    /\ LET i == Len(analyzed_routes) + 1
           path_coords == [n \in 1..Len(routes[i].coordinates) |->
                              [lat |-> routes[i].coordinates[n][1],
                               lng |-> routes[i].coordinates[n][2]]]
           analysis == analyze_route(path_coords, data.crime_data, data.incidents_311)
       IN  /\ data' = [data EXCEPT !.incidents_311 = analysis.touched]
           /\ incidents_311' = IF incidents_311 = data.incidents_311
                               THEN analysis.touched
                               ELSE incidents_311      \* replaced meanwhile
           /\ IF analysis.raised
              THEN /\ pc' = "failed"
                   /\ UNCHANGED analyzed_routes
              ELSE /\ analyzed_routes' =
                          Append(analyzed_routes, analyzed_entry(i, routes[i], analysis))
                   /\ UNCHANGED pc
    /\ UNCHANGED <<crime_data, last_fetch_time, routes, top_3_routes>>
    /\ UNCHANGED api_vars
    /\ UNCHANGED <<call_vars, now, fetch_vars>>

\* main.py 346-368
calculate_routes_sort ==
    /\ pc = "analyze"
    /\ Len(analyzed_routes) = Len(routes)
    /\ top_3_routes' = top_3_of(analyzed_routes)
    /\ analyzed_routes' = LET sorted == sort_by_total_risk(analyzed_routes)
                          IN  [n \in 1..Len(sorted) |->
                                  IF n <= TopK THEN [sorted[n] EXCEPT !.id = n]
                                  ELSE sorted[n]]
    /\ pc' = "done"
    /\ UNCHANGED <<crime_data, incidents_311, last_fetch_time, routes, data>>
    /\ UNCHANGED api_vars
    /\ UNCHANGED <<call_vars, now, fetch_vars>>

\* the response is sent (or the error is), the handler's locals are gone
calculate_routes_end ==
    /\ pc \in {"done", "failed"}
    /\ pc' = "idle"
    /\ routes' = <<>>
    /\ data' = NoData
    /\ analyzed_routes' = <<>>
    /\ top_3_routes' = <<>>
    /\ UNCHANGED <<crime_data, incidents_311, last_fetch_time>>
    /\ UNCHANGED api_vars
    /\ UNCHANGED <<call_vars, now, fetch_pc>>
    /\ data_during' = "none"

\* fetch_all_data as the scheduler's thread runs it (periodic_data_fetch),
\* beside the handler: three assignments, a request to the data source
\* before each of the first two.  The scheduler runs one job at a time, so
\* with fetch_pc = "idle" the three fields are those of one cycle, with
\* "crime_data" the crime list is one cycle ahead of the other two, and with
\* "incidents_311" only last_fetch_time is still of the cycle before.
periodic_fetch_crime_data(stores) ==
    /\ pc # "start"
    /\ fetch_pc = "idle"
    /\ \E st \in stores : crime_data' = st[1]
    /\ fetch_pc' = "crime_data"
    /\ UNCHANGED <<incidents_311, last_fetch_time, pc, routes, data,
                   analyzed_routes, top_3_routes>>
    /\ UNCHANGED <<api_vars, call_vars, now, data_during>>

periodic_fetch_311_data(stores) ==
    /\ fetch_pc = "crime_data"
    /\ \E st \in stores : incidents_311' = st[2]
    /\ fetch_pc' = "incidents_311"
    /\ UNCHANGED <<crime_data, last_fetch_time, pc, routes, data,
                   analyzed_routes, top_3_routes>>
    /\ UNCHANGED <<api_vars, call_vars, now, data_during>>

periodic_fetch_time ==
    /\ fetch_pc = "incidents_311"
    /\ last_fetch_time' = TimeAt(now)
    /\ fetch_pc' = "idle"
    /\ UNCHANGED <<crime_data, incidents_311, pc, routes, data,
                   analyzed_routes, top_3_routes>>
    /\ UNCHANGED <<api_vars, call_vars, now, data_during>>

\* an hour passes while no request is being served
tick(last_hour) ==
    /\ pc = "idle"
    /\ now < last_hour
    /\ now' = now + 1
    /\ UNCHANGED <<backend_vars, api_vars, call_vars, fetch_vars>>

---------------------------------------------------------------------------
(* api/path_risk_analysis.py (src/path_risk_analysis.py has the same       *)
(* assign_risk, min_distance_to_path and calculate_risk_score).            *)

ContainsAny(words, text) == \E n \in 1..Len(words) : Contains(words[n], text)

pra_risk_of_text(text, category_text, incident_type) ==
    IF incident_type = "crime"
    THEN LET description == upper(text)
         IN  IF ContainsAny(<<"EXPLOSIVE FOUND", "EXPLOSION", "ROBBERY",
                              "STRONGARM ROBBERY", "ASSAULT", "BATTERY">>, description)
                 THEN 3
             ELSE IF ContainsAny(<<"PURSE SNATCH", "INDECENT EXPOSURE", "FIGHT W/ WEAPONS",
                                   "FIGHT W/O WEAPONS", "BREAKING IN">>, description)
                 THEN 2
             ELSE 1
    ELSE LET service_name == upper(text)
             category == upper(category_text)
         IN  IF Contains("ENCAMPMENT", service_name) THEN 1
             ELSE IF Contains("AGGRESSIVE", service_name)
                     \/ Contains("THREATENING", service_name) THEN 3
             ELSE IF ContainsAny(<<"OBSTRUCTION", "HAZARD", "DEBRIS", "POTHOLES",
                                   "SIDEWALK">>, category) THEN 3
             ELSE IF ContainsAny(<<"MAINTENANCE", "REPAIR", "CLEANUP">>, category) THEN 2
             ELSE 1

PraRiskTable ==
    [incident_type \in {"crime", "311"} |->
        [s \in KnownTexts |-> pra_risk_of_text(s, "", incident_type)]]

pra_assign_risk(incident, incident_type) ==
    IF incident.text \in KnownTexts /\ incident.category = ""
    THEN PraRiskTable[incident_type][incident.text]
    ELSE pra_risk_of_text(incident.text, incident.category, incident_type)

\* t of calculate_risk_score (api 271-280): no lower bound
pra_elapsed_hours(incident_time, current_time) ==
    IF incident_time.k = "iso" THEN current_time - incident_time.h
    ELSE 0

\* One pass of the loop of calculate_risk_score (api 219-294)
pra_score_incident(path, incident, incident_type, current_time) ==
    LET point == incident.point
        nested == point.k = "val"
        incident_coords == IF nested THEN <<point.c[2], point.c[1]>>
                           ELSE <<incident.flat.lat, incident.flat.lng>>
        w == pra_assign_risk(incident, incident_type)
        d == min_distance_to_path(incident_coords, path)
        is_encampment == names_encampment(incident.text)
        t == pra_elapsed_hours(incident.time, current_time)
    IN  IF incident_type = "crime" /\ point.k = "null"
            THEN [op |-> "raise", v |-> 0]     \* None.get("coordinates", [])
        ELSE IF nested /\ Len(point.c) < 2
            THEN [op |-> "skip", v |-> 0]
        ELSE IF ~nested /\ (incident_type = "crime" \/ incident.flat.k # "val")
            THEN [op |-> "skip", v |-> 0]
        ELSE IF is_encampment /\ upper(incident.status) = "CLOSED"
            THEN [op |-> "skip", v |-> 0]
        ELSE [op |-> "add", v |-> risk_value(w, t, is_encampment, d)]

RECURSIVE PraScoreLoop(_, _, _, _, _)
PraScoreLoop(path, incidents, incident_type, current_time, total_risk) ==
    IF incidents = <<>> THEN [raised |-> FALSE, v |-> total_risk]
    ELSE LET s == pra_score_incident(path, Head(incidents), incident_type, current_time)
         IN  IF s.op = "raise" THEN [raised |-> TRUE, v |-> 0]
             ELSE PraScoreLoop(path, Tail(incidents), incident_type, current_time,
                               total_risk + s.v)

pra_calculate_risk_score(path, incidents, incident_type, current_time) ==
    PraScoreLoop(path, incidents, incident_type, current_time, 0)

\* api 312-323: the entry of path number i (from 0)
path_risk_entry(i, path, crime_list, incident_list, current_time) ==
    LET crime_risk == pra_calculate_risk_score(path, crime_list, "crime", current_time)
        incident_risk == pra_calculate_risk_score(path, incident_list, "311", current_time)
    IN  [raised |-> crime_risk.raised \/ incident_risk.raised,
         path_index |-> i,
         path |-> path,
         crime_risk |-> crime_risk.v,
         risk_311 |-> incident_risk.v,
         total_risk |-> crime_risk.v + incident_risk.v]

\* fetch_crime_data and fetch_311_data (api 36-138), as /crime-data and
\* /311-data call them with the cache expired: the cached lists are replaced
\* by what the requests return
api_fetch_data(stores) ==
    /\ \E st \in stores :
          data_cache' = [crime_data |-> st[1], incidents_311 |-> st[2],
                         fetch_time |-> TimeAt(now)]
    /\ UNCHANGED <<polypaths, path_risks, safest_paths, api_status>>
    /\ UNCHANGED backend_vars
    /\ UNCHANGED <<call_vars, now, fetch_vars>>

\* analyze_paths and find_lowest_risk_paths (api 298-335, 344-402): the
\* lists are the cached ones, or fetched when there are none or they have
\* expired; current_time = datetime.now(); an exception is answered 500
analyze_paths(path_lists, stores) ==
    \E p \in path_lists :
    \E st \in stores \cup {<<data_cache.crime_data, data_cache.incidents_311>>} :
        LET fresh == /\ data_cache.fetch_time # NoTime
                     /\ st = <<data_cache.crime_data, data_cache.incidents_311>>
            entries == [n \in 1..Len(p) |->
                           path_risk_entry(n - 1, p[n], st[1], st[2], now)]
            sorted == sort_by_total_risk(entries)
        IN  /\ fresh \/ st \in stores
            /\ data_cache' = [crime_data |-> st[1], incidents_311 |-> st[2],
                              fetch_time |-> TimeAt(now)]
            /\ polypaths' = p
            /\ IF \E n \in 1..Len(p) : entries[n].raised
               THEN /\ api_status' = "error"
                    /\ path_risks' = <<>>
                    /\ safest_paths' = <<>>
               ELSE /\ api_status' = "ok"
                    /\ path_risks' = sorted
                    /\ safest_paths' = FirstN(sorted, TopK)
            /\ UNCHANGED backend_vars
            /\ UNCHANGED <<call_vars, now, fetch_vars>>

---------------------------------------------------------------------------
(* Direct calls of the scoring functions, as a test or another module      *)
(* makes them: `call` holds the arguments, `result` what came back.        *)

\* RiskScorer.calculate_risk_score(path, incidents, incident_type, current_time)
call_calculate_risk_score ==
    /\ call.fn = "calculate_risk_score"
    /\ ~result.returned
    /\ LET r == calculate_risk_score(call.path, call.incidents, call.incident_type,
                                     self_current_time)
       IN  result' = [NoResult EXCEPT !.returned = TRUE, !.raised = r.raised,
                                      !.risk = r.v, !.touched = call.incidents]
    /\ UNCHANGED <<call, backend_vars, api_vars, now, fetch_vars>>

\* calculate_risk_score(path, incidents, incident_type, current_time) of
\* api/path_risk_analysis.py
call_pra_calculate_risk_score ==
    /\ call.fn = "pra_calculate_risk_score"
    /\ ~result.returned
    /\ LET r == pra_calculate_risk_score(call.path, call.incidents, call.incident_type,
                                         StartHour)
       IN  result' = [NoResult EXCEPT !.returned = TRUE, !.raised = r.raised,
                                      !.risk = r.v, !.touched = call.incidents]
    /\ UNCHANGED <<call, backend_vars, api_vars, now, fetch_vars>>

\* RiskScorer.analyze_route(path_coords, crime_data, incidents_311)
call_analyze_route ==
    /\ call.fn = "analyze_route"
    /\ ~result.returned
    /\ LET path_coords == [n \in 1..Len(call.path) |->
                              [lat |-> call.path[n][1], lng |-> call.path[n][2]]]
           r == analyze_route(path_coords, call.crime_data, call.incidents)
       IN  result' = [returned |-> TRUE, raised |-> r.raised, risk |-> r.total_risk,
                      total_risk |-> r.total_risk, crime_risk |-> r.crime_risk,
                      incident_risk |-> r.incident_risk,
                      filtered_incidents |-> r.filtered_incidents,
                      merged_incidents |-> r.merged_incidents,
                      touched |-> r.touched, out |-> r.incidents_311_merged]
    /\ UNCHANGED <<call, backend_vars, api_vars, now, fetch_vars>>

\* the body of find_lowest_risk_paths' loop for one path (api 312-323), the
\* fetched lists being call.crime_data and call.incidents
call_path_risk_entry ==
    /\ call.fn = "path_risk_entry"
    /\ ~result.returned
    /\ LET r == path_risk_entry(0, call.path, call.crime_data, call.incidents,
                                StartHour)
       IN  result' = [NoResult EXCEPT
                         !.returned = TRUE, !.raised = r.raised,
                         !.risk = r.total_risk, !.total_risk = r.total_risk,
                         !.crime_risk = r.crime_risk, !.incident_risk = r.risk_311,
                         !.touched = call.incidents]
    /\ UNCHANGED <<call, backend_vars, api_vars, now, fetch_vars>>

\* RiskScorer.merge_nearby_encampments(incidents_311)
call_merge_nearby_encampments ==
    /\ call.fn = "merge_nearby_encampments"
    /\ ~result.returned
    /\ LET r == merge_nearby_encampments(call.incidents)
       IN  result' = [NoResult EXCEPT
                         !.returned = TRUE, !.raised = r.raised,
                         !.merged_incidents = Len(r.out),
                         !.touched = r.touched, !.out = r.out]
    /\ UNCHANGED <<call, backend_vars, api_vars, now, fetch_vars>>

\* RiskScorer.assign_risk(incident, incident_type)
call_assign_risk ==
    /\ call.fn = "assign_risk"
    /\ ~result.returned
    /\ result' = [NoResult EXCEPT
                     !.returned = TRUE,
                     !.risk = assign_risk(call.incidents[1], call.incident_type)]
    /\ UNCHANGED <<call, backend_vars, api_vars, now, fetch_vars>>

\* assign_risk(incident, incident_type) of path_risk_analysis.py
call_pra_assign_risk ==
    /\ call.fn = "pra_assign_risk"
    /\ ~result.returned
    /\ result' = [NoResult EXCEPT
                     !.returned = TRUE,
                     !.risk = pra_assign_risk(call.incidents[1], call.incident_type)]
    /\ UNCHANGED <<call, backend_vars, api_vars, now, fetch_vars>>

---------------------------------------------------------------------------
(* The inputs: what the data sources and the routing service may return,   *)
(* and the arguments of the direct calls.                                  *)

\* every sequence over S of length lo..hi
SeqsOf(S, lo, hi) == UNION {[1..m -> S] : m \in lo..hi}

Route(coordinates) == [coordinates |-> coordinates]

\* a (lat, lng) some 7 km from the grid's origin
FarPoint == <<100, 100>>

EmptyPath  == <<>>
SinglePath == << <<0, 0>> >>
PathA      == << <<0, 0>>, <<0, 2>> >>
PathB      == << <<3, 0>>, <<3, 1>>, <<3, 3>> >>
PathC      == << <<0, 1>>, <<1, 1>> >>
PathD      == << <<1, 0>>, <<1, 1>> >>

Ago(hours) == TimeAt(StartHour - hours)

(* The backend at work: few incidents, up to MaxRoutes routes.             *)

Crimes ==
    { Incident("ROBBERY", PointAt(0, 0), Ago(0), ""),
      Incident("SUSPICIOUS PERSON", PointAt(1, 0), Ago(12), ""),
      Incident("ROBBERY", NullLocation, Ago(0), "") }

Requests311 ==
    { Incident("Encampments", PointAt(1, 1), Ago(200), "Open"),
      Incident("Encampment", PointAt(0, 2), Ago(0), "Closed") }

MaxIncidents == 2
MaxRoutes == 4

\* The pairs (crime list, 311 list) the two fetches may return: up to
\* MaxIncidents records in all; a source that returns nothing is taken with
\* the other returning at most one record.
StoresOf(crimes, requests) ==
    {st \in SeqsOf(crimes, 0, MaxIncidents) \X SeqsOf(requests, 0, MaxIncidents) :
        /\ Len(st[1]) + Len(st[2]) <= MaxIncidents
        /\ (Len(st[1]) = 0 \/ Len(st[2]) = 0) => Len(st[1]) + Len(st[2]) <= 1}

Stores == StoresOf(Crimes, Requests311)

RouteLists == SeqsOf({Route(p) : p \in {PathA, PathC, PathD}}, 1, MaxRoutes)

Next ==
    \/ fetch_all_data(Stores)
    \/ calculate_routes_begin(RouteLists, Stores)
    \/ calculate_routes_analyze
    \/ calculate_routes_sort
    \/ calculate_routes_end

Spec == Init /\ [][Next]_vars

(* The backend while hours pass: one crime and one request in the store.   *)

MaxTicks == 2

ClockStores ==
    { << <<crime>>, <<request>> >> :
        crime \in { Incident("ROBBERY", PointAt(0, 0), Ago(0), ""),
                    Incident("SUSPICIOUS PERSON", PointAt(1, 0), Ago(12), "") },
        request \in { Incident("Aggressive/Threatening", PointAt(0, 0), Ago(0), "Open"),
                      Incident("Encampments", PointAt(1, 1), Ago(200), "Open") } }

ClockRouteLists == SeqsOf({Route(PathA), Route(PathD)}, 1, 2)

NextClock ==
    \/ fetch_all_data(ClockStores)
    \/ tick(StartHour + MaxTicks)
    \/ calculate_routes_begin(ClockRouteLists, ClockStores)
    \/ calculate_routes_analyze
    \/ calculate_routes_sort
    \/ calculate_routes_end

SpecClock == Init /\ [][NextClock]_vars

(* The backend with the routes as get_graphhopper_routes returns them.     *)

MaxAlternatives == 3

PaddedRouteLists ==
    { get_graphhopper_routes(alternatives, NumRoutes) :
        alternatives \in SeqsOf({Route(p) : p \in {PathA, PathC, PathD}},
                                1, MaxAlternatives) }

NextRoutes ==
    \/ fetch_all_data(ClockStores)
    \/ calculate_routes_begin(PaddedRouteLists, ClockStores)
    \/ calculate_routes_analyze
    \/ calculate_routes_sort
    \/ calculate_routes_end

SpecRoutes == Init /\ [][NextRoutes]_vars

(* The backend with the scheduler's fetch running beside the handler.      *)

FetchStores ==
    { << <<crime>>, <<request>> >> :
        crime \in { Incident("ROBBERY", PointAt(0, 0), Ago(0), ""),
                    Incident("SUSPICIOUS PERSON", PointAt(1, 0), Ago(12), "") },
        request \in { Incident("Aggressive/Threatening", PointAt(0, 0), Ago(0), "Open"),
                      Incident("Graffiti", PointAt(1, 1), Ago(12), "Open") } }

NextFetch ==
    \/ pc = "start" /\ fetch_all_data(FetchStores)
    \/ periodic_fetch_crime_data(FetchStores)
    \/ periodic_fetch_311_data(FetchStores)
    \/ periodic_fetch_time
    \/ tick(StartHour + MaxTicks)
    \/ calculate_routes_begin(ClockRouteLists, FetchStores)
    \/ calculate_routes_analyze
    \/ calculate_routes_sort
    \/ calculate_routes_end

SpecFetch == Init /\ [][NextFetch]_vars

(* The api service: its lists are fetched, lists of paths are analysed.     *)

ApiPathLists == SeqsOf({PathA, PathC, PathD}, 1, 2)

NextApi ==
    \/ api_fetch_data(ClockStores)
    \/ analyze_paths(ApiPathLists, ClockStores)

SpecApi == Init /\ [][NextApi]_vars

(* The scoring functions called directly.                                  *)

CallPaths == {EmptyPath, SinglePath, PathA, PathB}

CallPoints ==
    { PointAt(0, 0), PointAt(0, 1), PointAt(FarPoint[1], FarPoint[2]),
      NoLocation, NullLocation, Coordinates(<<0>>) }

CallTimes == { Ago(0), Ago(36), Ago(1000), Ago(-10), NoTime, NullTime, BadTime }

\* every record of one incident: text x location x time x status
OneCrime ==
    { Incident(text, point, time, "") :
        text \in {"ROBBERY", "Burglary", "SUSPICIOUS PERSON", "TRAFFIC STOP"},
        point \in CallPoints, time \in CallTimes }

OneRequest ==
    { Incident(text, point, time, status) :
        text \in {"Encampments", "Aggressive/Threatening", "Graffiti"},
        point \in CallPoints, time \in CallTimes, status \in {"Open", "Closed"} }

\* a request that carries its position as flat Latitude / Longitude fields
FlatIncident(text, lat, lng, time, status) ==
    [Incident(text, NoLocation, time, status) EXCEPT !.flat = Flat(lat, lng)]

OneFlatRequest ==
    { FlatIncident(text, pos[1], pos[2], time, "Open") :
        text \in {"Encampments", "Aggressive/Threatening"},
        pos \in {<<0, 0>>, <<0, 1>>}, time \in {Ago(0), Ago(12)} }

\* the records the longer lists are made of
ListCrimes ==
    { Incident("ROBBERY", PointAt(0, 0), Ago(0), ""),
      Incident("Burglary", PointAt(0, 1), Ago(12), ""),
      Incident("TRAFFIC STOP", PointAt(0, 0), Ago(0), ""),
      Incident("ROBBERY", NoLocation, Ago(0), ""),
      Incident("ROBBERY", NullLocation, Ago(0), "") }

ListRequests ==
    { Incident("Encampments", PointAt(0, 0), Ago(200), "Open"),
      Incident("Encampment", PointAt(0, 1), Ago(0), "Closed"),
      Incident("Encampments", PointAt(3, 3), Ago(30), "closed"),
      Incident("Aggressive/Threatening", PointAt(0, 0), Ago(0), "Open"),
      Incident("Graffiti", PointAt(0, 0), Ago(0), "Open"),
      Incident("Encampments", NullLocation, Ago(0), "Open"),
      Incident("Encampments", PointAt(0, 0), NullTime, "Open") }

MaxCallIncidents == 2

\* open encampments in a row, each two grid steps (0.001 degrees) from the next
ChainEncampments ==
    { Incident("Encampments", PointAt(0, 0), Ago(0), "Open"),
      Incident("Encampments", PointAt(0, 2), Ago(12), "Open"),
      Incident("Encampments", PointAt(0, 4), Ago(36), "Open") }

MaxChain == 3

\* the records the lists given to the merge are made of
MergeRecords ==
    ChainEncampments \cup
    { Incident("Encampments", PointAt(0, 0), Ago(6), "Open"),
      Incident("Encampment", PointAt(1, 1), NullTime, "Open"),
      Incident("Encampments", NoLocation, Ago(0), "Open"),
      Incident("Encampments", NullLocation, Ago(0), "Open"),
      Incident("Graffiti", PointAt(0, 0), Ago(0), "Closed") }

MaxMerge == 3

ScoreCall(fn, path, incidents, incident_type) ==
    [fn |-> fn, path |-> path, crime_data |-> <<>>, incidents |-> incidents,
     incident_type |-> incident_type]

AnalyzeCall(path, crime_list, incident_list) ==
    [fn |-> "analyze_route", path |-> path, crime_data |-> crime_list,
     incidents |-> incident_list, incident_type |-> "311"]

Calls ==
    { ScoreCall(fn, path, <<incident>>, "crime") :
        fn \in {"calculate_risk_score", "pra_calculate_risk_score"},
        path \in CallPaths, incident \in OneCrime }
    \cup
    { ScoreCall(fn, path, <<incident>>, "311") :
        fn \in {"calculate_risk_score", "pra_calculate_risk_score"},
        path \in CallPaths, incident \in OneRequest }
    \cup
    { ScoreCall(fn, path, <<incident>>, "311") :
        fn \in {"calculate_risk_score", "pra_calculate_risk_score"},
        path \in CallPaths, incident \in OneFlatRequest }
    \cup
    { ScoreCall(fn, path, incidents, "crime") :
        fn \in {"calculate_risk_score", "pra_calculate_risk_score"},
        path \in CallPaths, incidents \in SeqsOf(ListCrimes, 0, MaxCallIncidents) }
    \cup
    { ScoreCall(fn, path, incidents, "311") :
        fn \in {"calculate_risk_score", "pra_calculate_risk_score"},
        path \in CallPaths, incidents \in SeqsOf(ListRequests, 0, MaxCallIncidents) }
    \cup
    { AnalyzeCall(path, crime_list, incident_list) :
        path \in CallPaths,
        crime_list \in SeqsOf(ListCrimes, 0, 1),
        incident_list \in SeqsOf(ListRequests, 0, MaxCallIncidents) }
    \cup
    { AnalyzeCall(PathA, <<>>, incident_list) :
        incident_list \in SeqsOf(ChainEncampments, 2, MaxChain) }
    \cup
    { ScoreCall("merge_nearby_encampments", <<>>, incident_list, "311") :
        incident_list \in SeqsOf(MergeRecords, 0, MaxMerge) }
    \cup
    { [AnalyzeCall(path, crime_list, incident_list) EXCEPT !.fn = "path_risk_entry"] :
        path \in CallPaths,
        crime_list \in SeqsOf(ListCrimes \cup
                                 {Incident("ROBBERY", PointAt(0, 0), Ago(-10), "")}, 0, 1),
        incident_list \in SeqsOf(ListRequests, 0, 1) }

\* descriptions and service names given to the classifiers
CrimeDescriptions ==
    { "PURSE SNATCH", "INDECENT EXPOSURE", "FIGHT W/WEAPONS", "FIGHT NO WEAPON",
      "PERSON BREAKING IN", "BURGLARY", "Burglary", "FIGHT W/ WEAPONS",
      "FIGHT W/O WEAPONS", "BURGLARY / ROBBERY", "ROBBERY", "SUSPICIOUS PERSON",
      "TRAFFIC STOP" }

ServiceNames ==
    { "Encampments", "Encampment", "Aggressive/Threatening", "Aggressive",
      "Threatening", "aggressive behavior", "Aggressive Encampment", "Graffiti" }

ClassifyCalls ==
    { ScoreCall(fn, <<>>, <<Incident(text, NoLocation, NoTime, "")>>, "crime") :
        fn \in {"assign_risk", "pra_assign_risk"}, text \in CrimeDescriptions }
    \cup
    { ScoreCall(fn, <<>>, <<Incident(text, NoLocation, NoTime, "")>>, "311") :
        fn \in {"assign_risk", "pra_assign_risk"}, text \in ServiceNames }

InitCall ==
    /\ crime_data = <<>>
    /\ incidents_311 = <<>>
    /\ last_fetch_time = NoTime
    /\ pc = "start"
    /\ routes = <<>>
    /\ data = NoData
    /\ analyzed_routes = <<>>
    /\ top_3_routes = <<>>
    /\ polypaths = <<>>
    /\ path_risks = <<>>
    /\ safest_paths = <<>>
    /\ data_cache = NoData
    /\ api_status = "none"
    /\ call \in Calls \cup ClassifyCalls
    /\ result = NoResult
    /\ now = StartHour
    /\ fetch_pc = "idle"
    /\ data_during = "none"

NextCall ==
    \/ call_calculate_risk_score
    \/ call_pra_calculate_risk_score
    \/ call_analyze_route
    \/ call_path_risk_entry
    \/ call_merge_nearby_encampments
    \/ call_assign_risk
    \/ call_pra_assign_risk

SpecCall == InitCall /\ [][NextCall]_vars

---------------------------------------------------------------------------
(* The properties.  A risk r of the program is r * RiskUnit here.          *)

Returned(fn) == call.fn = fn /\ result.returned

\* the list without its i-th record
Without(list, i) == SubSeq(list, 1, i - 1) \o SubSeq(list, i + 1, Len(list))

\* the record scored alone has a location of two coordinates
Located(incident) == incident.point.k = "val" /\ Len(incident.point.c) >= 2

\* (lat, lng) of a located record
LatLng(incident) == <<incident.point.c[2], incident.point.c[1]>>

\* weight^2 * exp(-d^2 / 0.02) for the record and the path, d the least
\* distance to a vertex of the path
FullContribution(w, incident, path) ==
    w * w * 24 * 24 * distance_factor(min_distance_to_path(LatLng(incident), path))

\* C1: For every path with fewer than 2 vertices and every pair of incident
\* streams, scoring the path (calculate_risk_score on a stream, analyze_route
\* on both) yields total risk 0, crime subtotal 0 and request subtotal 0.
C1_DegeneratePathScoresZero ==
    (result.returned /\ call.fn \in {"calculate_risk_score", "analyze_route"}
        /\ Len(call.path) < 2)
    => /\ ~result.raised
       /\ result.risk = 0
       /\ result.total_risk = 0
       /\ result.crime_risk = 0
       /\ result.incident_risk = 0

\* What remains of C1: whenever the scoring of a path with fewer than 2
\* vertices returns at all, every total is 0.
C1_ZeroWhenReturned ==
    (result.returned /\ call.fn \in {"calculate_risk_score", "analyze_route"}
        /\ Len(call.path) < 2 /\ ~result.raised)
    => /\ result.risk = 0
       /\ result.total_risk = 0
       /\ result.crime_risk = 0
       /\ result.incident_risk = 0

\* the call scores one crime of weight 3, reported at the reference time
C2_Scenario ==
    /\ Returned("calculate_risk_score")
    /\ call.incident_type = "crime"
    /\ Len(call.incidents) = 1
    /\ Located(call.incidents[1])
    /\ assign_risk(call.incidents[1], "crime") = 3
    /\ ~names_encampment(call.incidents[1].text)
    /\ call.incidents[1].time = Ago(0)

\* C2 (as stated): a weight-3 crime with elapsed time 0, at the single vertex
\* of a single-vertex path, contributes 9.0 to the path's score.
C2_SingleVertexScoresNine ==
    (C2_Scenario /\ Len(call.path) = 1 /\ call.path[1] = LatLng(call.incidents[1]))
    => result.risk = 9 * RiskUnit

\* C2 (amended): the crime contributes 9.0 to a path of two or more vertices
\* one of which is where the crime is, and 0 to a single-vertex path there.
C2_VertexOfPathScoresNine ==
    /\ (C2_Scenario /\ Len(call.path) >= 2
            /\ \E n \in 1..Len(call.path) : call.path[n] = LatLng(call.incidents[1]))
       => (~result.raised /\ result.risk = 9 * RiskUnit)
    /\ (C2_Scenario /\ Len(call.path) = 1 /\ call.path[1] = LatLng(call.incidents[1]))
       => (~result.raised /\ result.risk = 0)

C2_Witness ==
    /\ C2_Scenario
    /\ Len(call.path) >= 2
    /\ call.path[1] = LatLng(call.incidents[1])
    /\ result.risk = 9 * RiskUnit

\* the step of calculate_routes that sorts and keeps the first three
RankingStep == pc = "analyze" /\ pc' = "done"

\* entry e of the answer is the analysed route number j of the request
SameRoute(e, input, j) ==
    /\ e.coordinates = input[j].coordinates
    /\ e.total_risk = input[j].total_risk
    /\ e.crime_risk = input[j].crime_risk
    /\ e.incident_risk = input[j].incident_risk
    /\ e.safetyScore = input[j].safetyScore

\* the ways to read the answer as routes of the request, each taken once
Picks(input, output) ==
    {f \in [1..Len(output) -> 1..Len(input)] :
        /\ \A a, b \in 1..Len(output) : a # b => f[a] # f[b]
        /\ \A a \in 1..Len(output) : SameRoute(output[a], input, f[a])}

Ranked(input, output) ==
    /\ Len(output) = Min(TopK, Len(input))
    /\ \A a \in 1..(Len(output) - 1) : output[a].total_risk <= output[a + 1].total_risk
    /\ \E f \in Picks(input, output) :
          \A j \in 1..Len(input) :
              (\A a \in 1..Len(output) : f[a] # j)
              => \A a \in 1..Len(output) : output[a].total_risk <= input[j].total_risk

\* C3: Ranking N candidate paths returns min(K, N) entries (K = 3), each a
\* distinct input path, in non-decreasing order of raw total risk, and every
\* returned path has total risk less than or equal to that of every path left
\* out.
C3_RankedByRawTotalRisk ==
    [][RankingStep => Ranked(analyzed_routes, top_3_routes')]_vars

\* more routes than are kept, of different risks, the last one kept safer
\* than the first one left out
C3_Witness ==
    /\ pc = "done"
    /\ Len(analyzed_routes) > TopK
    /\ Len(top_3_routes) = TopK
    /\ top_3_routes[1].total_risk < top_3_routes[TopK].total_risk
    /\ top_3_routes[TopK].total_risk < analyzed_routes[TopK + 1].total_risk

StableRanked(input, output) ==
    \E f \in Picks(input, output) :
        /\ \A a, b \in 1..Len(output) :
              (a < b /\ output[a].total_risk = output[b].total_risk) => f[a] < f[b]
        /\ \A j \in 1..Len(input) : \A a \in 1..Len(output) :
              ((\A b \in 1..Len(output) : f[b] # j)
                  /\ input[j].total_risk = output[a].total_risk) => f[a] < j

\* C4: When candidate paths have equal total risk, the ranked output lists
\* them in their original input order, and of tied paths the ones earlier in
\* the input are the ones kept by the top-K truncation.
C4_TiesKeepInputOrder ==
    [][RankingStep => StableRanked(analyzed_routes, top_3_routes')]_vars

\* a tie of two different routes across the truncation, and a tie inside
C4_Witness ==
    /\ pc = "done"
    /\ Len(analyzed_routes) > TopK
    /\ analyzed_routes[TopK].total_risk = analyzed_routes[TopK + 1].total_risk
    /\ analyzed_routes[TopK].coordinates # analyzed_routes[TopK + 1].coordinates
    /\ analyzed_routes[TopK - 1].total_risk = analyzed_routes[TopK].total_risk
    /\ analyzed_routes[TopK - 1].coordinates # analyzed_routes[TopK].coordinates
    /\ analyzed_routes[1].total_risk > 0

\* path_coords of analyze_route for a path of (lat, lng) pairs
CoordsOf(path) == [n \in 1..Len(path) |-> [lat |-> path[n][1], lng |-> path[n][2]]]

\* "closed" in its letter cases, and status values that are something else
ClosedSpellings == {"closed", "Closed", "CLOSED", "cLoSeD"}
OtherStatuses == {"", "Open", "open", "Closed ", "Close", "In Progress"}

\* where and when the swept records are
SweepPoints == {PointAt(0, 0), PointAt(0, 1), PointAt(FarPoint[1], FarPoint[2]), NullLocation}
SweepTimes == {Ago(0), Ago(1000), Ago(-10), NoTime}

\* how many records of the list the filter is to drop, by the claim's words
ClosedCount(incidents) ==
    Cardinality({i \in 1..Len(incidents) :
                    /\ names_encampment(incidents[i].text)
                    /\ incidents[i].status \in ClosedSpellings})

\* C5: When a route is analysed (analyze_route), an encampment-type request
\* whose status equals "closed" in any letter case contributes 0 to the
\* request subtotal at every distance and every age (the analysis comes out
\* as without the record), while an encampment with any other status value
\* is not removed by the filter.
C5_ClosedEncampmentsContributeNothing ==
    Returned("analyze_route") =>
        /\ result.raised \/ result.filtered_incidents
                               = Len(call.incidents) - ClosedCount(call.incidents)
        /\ \A i \in 1..Len(call.incidents) :
              names_encampment(call.incidents[i].text) =>
                 LET without == analyze_route(CoordsOf(call.path), call.crime_data,
                                              Without(call.incidents, i))
                 IN  /\ call.incidents[i].status \in ClosedSpellings
                        => /\ result.raised = without.raised
                           /\ result.incident_risk = without.incident_risk
                           /\ result.total_risk = without.total_risk
                     /\ \A s \in ClosedSpellings : \A point \in SweepPoints :
                        \A time \in SweepTimes :
                           LET closed == [call.incidents[i] EXCEPT
                                             !.status = s, !.point = point, !.time = time]
                               with == analyze_route(CoordsOf(call.path), call.crime_data,
                                                     [call.incidents EXCEPT ![i] = closed])
                           IN  /\ with.raised = without.raised
                               /\ with.incident_risk = without.incident_risk
                               /\ with.total_risk = without.total_risk
                     /\ \A s \in OtherStatuses :
                           LET other == [call.incidents[i] EXCEPT !.status = s]
                               kept == filter_closed_encampments(
                                           [call.incidents EXCEPT ![i] = other])
                           IN  \E n \in 1..Len(kept) : kept[n] = other

\* a closed encampment ("Closed") next to the path, reported now, analysed
\* with an open one that counts
C5_Witness ==
    /\ Returned("analyze_route")
    /\ ~result.raised
    /\ Len(call.path) >= 2
    /\ \E i \in 1..Len(call.incidents) :
          /\ names_encampment(call.incidents[i].text)
          /\ call.incidents[i].status = "Closed"
          /\ Located(call.incidents[i])
          /\ distance_factor(min_distance_to_path(LatLng(call.incidents[i]), call.path)) > 0
    /\ result.filtered_incidents < Len(call.incidents)
    /\ result.incident_risk > 0

\* the greatest age of the sweeps over elapsed hours
MaxAge == 80

\* the call scores one located record with either scoring function
OneRecordCall ==
    /\ result.returned
    /\ call.fn \in {"calculate_risk_score", "pra_calculate_risk_score"}
    /\ Len(call.incidents) = 1
    /\ Located(call.incidents[1])

\* the weight the called variant gives the record
WeightInCall ==
    IF call.fn = "pra_calculate_risk_score"
    THEN pra_assign_risk(call.incidents[1], call.incident_type)
    ELSE assign_risk(call.incidents[1], call.incident_type)

\* the call repeated with the record reported `hours` before the reference time
ScoreAtAge(hours) ==
    LET aged == <<[call.incidents[1] EXCEPT !.time = Ago(hours)]>>
    IN  IF call.fn = "pra_calculate_risk_score"
        THEN pra_calculate_risk_score(call.path, aged, call.incident_type, StartHour)
        ELSE calculate_risk_score(call.path, aged, call.incident_type, self_current_time)

\* the record is reported at or before the reference time
ReportedInPast(incident) == incident.time.k = "iso" /\ incident.time.h <= StartHour

\* the record is reported after the reference time
ReportedInFuture(incident) == incident.time.k = "iso" /\ incident.time.h > StartHour

C6_OpenEncampmentCall ==
    /\ OneRecordCall
    /\ call.incident_type = "311"
    /\ names_encampment(call.incidents[1].text)
    /\ call.incidents[1].status \notin ClosedSpellings
    /\ ReportedInPast(call.incidents[1])

\* C6: An open encampment-type incident does not decay: for every elapsed
\* time t >= 0 (e.g. t = 1000 hours) its contribution equals its contribution
\* at t = 0, namely weight^2 * exp(-d^2/0.02).
C6_OpenEncampmentDoesNotDecay ==
    C6_OpenEncampmentCall =>
        /\ ~result.raised
        /\ result.risk = FullContribution(WeightInCall, call.incidents[1], call.path)
        /\ \A t \in (0..MaxAge) \cup {1000} :
              /\ ~ScoreAtAge(t).raised
              /\ ScoreAtAge(t).v = ScoreAtAge(0).v
              /\ ScoreAtAge(t).v = FullContribution(WeightInCall, call.incidents[1], call.path)

\* an open encampment reported 1000 hours ago, one grid step from the path
C6_Witness ==
    /\ C6_OpenEncampmentCall
    /\ call.fn = "calculate_risk_score"
    /\ call.incidents[1].time = Ago(1000)
    /\ Len(call.path) >= 2
    /\ min_distance_to_path(LatLng(call.incidents[1]), call.path) = 1
    /\ result.risk = 24 * 24 * ExpTable[2]

C7_DecayingCall ==
    /\ OneRecordCall
    /\ call.fn = "calculate_risk_score"
    /\ ~names_encampment(call.incidents[1].text)
    /\ WeightInCall \in 1..3
    /\ ReportedInPast(call.incidents[1])

\* 72 hours for weight 3, 24 hours for weights 1 and 2
Cutoff(w) == IF w = 3 THEN 72 ELSE 24

\* exp(-d^2/0.02) of the call's record and path, times FactorScale
FactorInCall == distance_factor(min_distance_to_path(LatLng(call.incidents[1]), call.path))

\* non-increasing in elapsed hours, 0 from the cutoff on
C7_Decay ==
    /\ \A t \in 0..(MaxAge - 1) : ScoreAtAge(t + 1).v <= ScoreAtAge(t).v
    /\ \A t \in 0..MaxAge : t >= Cutoff(WeightInCall) => ScoreAtAge(t).v = 0
    /\ result.risk = ScoreAtAge(StartHour - call.incidents[1].time.h).v

\* C7 (as stated): For a non-encampment incident at a fixed distance, the
\* contribution is non-increasing in elapsed hours, strictly decreasing
\* before the cutoff, and exactly 0 at and beyond the cutoff (72 hours for
\* weight 3, 24 hours for weights 1 and 2).
C7_StrictDecayAtEveryDistance ==
    C7_DecayingCall =>
        /\ C7_Decay
        /\ \A t \in 0..(MaxAge - 1) :
              t < Cutoff(WeightInCall) => ScoreAtAge(t + 1).v < ScoreAtAge(t).v

\* C7 (amended): as stated, with the strict decrease before the cutoff only
\* where exp(-d^2/0.02) is positive; where it is 0.0 (a path of fewer than 2
\* vertices, or a distance at which exp underflows) the contribution is 0 at
\* every age.
C7_StrictDecayWhereFactorPositive ==
    C7_DecayingCall =>
        /\ C7_Decay
        /\ \A t \in 0..(MaxAge - 1) :
              (t < Cutoff(WeightInCall) /\ FactorInCall > 0)
              => ScoreAtAge(t + 1).v < ScoreAtAge(t).v
        /\ FactorInCall = 0 => \A t \in 0..MaxAge : ScoreAtAge(t).v = 0

\* a weight-3 crime reported 36 hours ago, at a vertex of the path: half of
\* the severity is left, a quarter of 9.0
C7_Witness ==
    /\ C7_DecayingCall
    /\ WeightInCall = 3
    /\ call.incidents[1].time = Ago(36)
    /\ FactorInCall = FactorScale
    /\ result.risk * 4 = 9 * RiskUnit

\* C8: For an incident whose report time is later than the reference time,
\* elapsed hours is treated as 0, so in every scoring variant its
\* contribution never exceeds weight^2 * exp(-d^2/0.02).
C8_FutureReportNotAmplified ==
    (OneRecordCall /\ ReportedInFuture(call.incidents[1]))
    => /\ ~result.raised
       /\ result.risk = ScoreAtAge(0).v
       /\ result.risk <= FullContribution(WeightInCall, call.incidents[1], call.path)

\* What remains of C8: RiskScorer (calculate_time_since_incident) does treat
\* the elapsed hours of a report from the future as 0.
C8_BackendTreatsFutureAsNow ==
    (OneRecordCall /\ call.fn = "calculate_risk_score"
        /\ ReportedInFuture(call.incidents[1]))
    => /\ ~result.raised
       /\ result.risk = ScoreAtAge(0).v
       /\ result.risk <= FullContribution(WeightInCall, call.incidents[1], call.path)

\* texts that name no tracked category, in either classifier's lists
UntrackedTexts == {"TRAFFIC STOP", "Graffiti"}

\* the call's outcome: whether it raised, and the subtotals and the total
Outcome(raised, crime_risk, incident_risk, total_risk) ==
    [raised |-> raised, crime_risk |-> crime_risk, incident_risk |-> incident_risk,
     total_risk |-> total_risk]

ResultOutcome ==
    Outcome(result.raised, result.crime_risk, result.incident_risk, result.risk)

\* the outcome of the call made with incident stream `incidents` instead
OutcomeWith(incidents) ==
    IF call.fn = "analyze_route"
    THEN LET r == analyze_route(CoordsOf(call.path), call.crime_data, incidents)
         IN  Outcome(r.raised, r.crime_risk, r.incident_risk, r.total_risk)
    ELSE IF call.fn = "pra_calculate_risk_score"
    THEN LET r == pra_calculate_risk_score(call.path, incidents, call.incident_type,
                                           StartHour)
         IN  Outcome(r.raised, 0, 0, r.v)
    ELSE LET r == calculate_risk_score(call.path, incidents, call.incident_type,
                                       self_current_time)
         IN  Outcome(r.raised, 0, 0, r.v)

\* the outcome of analyze_route made with crime stream `crimes` instead
OutcomeWithCrimes(crimes) ==
    LET r == analyze_route(CoordsOf(call.path), crimes, call.incidents)
    IN  Outcome(r.raised, r.crime_risk, r.incident_risk, r.total_risk)

\* C9: Adding to either incident stream an incident whose text matches no
\* tracked category (weight 0) leaves every path's crime subtotal, request
\* subtotal and total unchanged: the call comes out as it does with the
\* stream without that incident.
C9_UntrackedIncidentChangesNothing ==
    (result.returned /\ call.fn \in {"calculate_risk_score", "pra_calculate_risk_score",
                                      "analyze_route"}) =>
        /\ \A i \in 1..Len(call.incidents) :
              call.incidents[i].text \in UntrackedTexts
              => ResultOutcome = OutcomeWith(Without(call.incidents, i))
        /\ \A i \in 1..Len(call.crime_data) :
              call.crime_data[i].text \in UntrackedTexts
              => ResultOutcome = OutcomeWithCrimes(Without(call.crime_data, i))

\* What remains of C9: in RiskScorer an incident of weight 0 that has a
\* location, or none under its key, changes nothing.
C9_BackendSkipsWeightZero ==
    (result.returned /\ call.fn \in {"calculate_risk_score", "analyze_route"}) =>
        /\ \A i \in 1..Len(call.incidents) :
              (assign_risk(call.incidents[i], call.incident_type) = 0
                  /\ call.incidents[i].point.k # "null")
              => ResultOutcome = OutcomeWith(Without(call.incidents, i))
        /\ \A i \in 1..Len(call.crime_data) :
              (assign_risk(call.crime_data[i], "crime") = 0
                  /\ call.crime_data[i].point.k # "null")
              => ResultOutcome = OutcomeWithCrimes(Without(call.crime_data, i))

\* location key absent, location value null, or fewer than two coordinates
LocationMissing(incident) == ~Located(incident)

\* C10: For any incident list in which one record has a missing or null
\* location, scoring a path (calculate_risk_score on the list, analyze_route
\* with it) raises no exception and returns the same subtotal as scoring the
\* list with that record removed.
C10_MissingLocationIsSkipped ==
    (result.returned /\ call.fn \in {"calculate_risk_score", "analyze_route"}) =>
        /\ \A i \in 1..Len(call.incidents) :
              LocationMissing(call.incidents[i])
              => /\ ~result.raised
                 /\ ResultOutcome = OutcomeWith(Without(call.incidents, i))
        /\ \A i \in 1..Len(call.crime_data) :
              LocationMissing(call.crime_data[i])
              => /\ ~result.raised
                 /\ ResultOutcome = OutcomeWithCrimes(Without(call.crime_data, i))

\* What remains of C10: a record without the location key, or with fewer
\* than two coordinates, is skipped.
C10_AbsentOrShortLocationIsSkipped ==
    (result.returned /\ call.fn \in {"calculate_risk_score", "analyze_route"}) =>
        /\ \A i \in 1..Len(call.incidents) :
              (LocationMissing(call.incidents[i]) /\ call.incidents[i].point.k # "null")
              => ResultOutcome = OutcomeWith(Without(call.incidents, i))
        /\ \A i \in 1..Len(call.crime_data) :
              (LocationMissing(call.crime_data[i]) /\ call.crime_data[i].point.k # "null")
              => ResultOutcome = OutcomeWithCrimes(Without(call.crime_data, i))

\* the report timestamp is missing, null or unparsable
Undated(incident) == incident.time.k \in {"absent", "null", "bad"}

\* the record as it would be with a report time equal to the reference time
DatedNow(incident) == [incident EXCEPT !.time = Ago(0)]

\* the stream with its i-th record dated now
WithDatedNow(incidents, i) == [incidents EXCEPT ![i] = DatedNow(incidents[i])]

\* C11: An incident whose report timestamp is missing, null or unparsable is
\* scored with elapsed hours = 0 (its full undecayed severity); it is neither
\* skipped nor does it raise: the scoring functions come out as with the
\* record reported at the reference time, and the analysis of a route raises
\* no more than it does then (and, for a record no merge touches, comes out
\* the same).
C11_UndatedIncidentScoredAsNow ==
    result.returned =>
        /\ call.fn \in {"calculate_risk_score", "pra_calculate_risk_score"}
           => \A i \in 1..Len(call.incidents) :
                 Undated(call.incidents[i])
                 => ResultOutcome = OutcomeWith(WithDatedNow(call.incidents, i))
        /\ call.fn = "analyze_route"
           => /\ \A i \in 1..Len(call.incidents) :
                    Undated(call.incidents[i])
                    => LET dated == OutcomeWith(WithDatedNow(call.incidents, i))
                       IN  /\ result.raised = dated.raised
                           /\ ~names_encampment(call.incidents[i].text)
                              => ResultOutcome = dated
              /\ \A i \in 1..Len(call.crime_data) :
                    Undated(call.crime_data[i])
                    => ResultOutcome
                          = OutcomeWithCrimes(WithDatedNow(call.crime_data, i))

\* What remains of C11: both calculate_risk_score functions score a record
\* without a usable timestamp as reported at the reference time, and so does
\* analyze_route unless the timestamp is null.
C11_ScoringTreatsUndatedAsNow ==
    result.returned =>
        /\ call.fn \in {"calculate_risk_score", "pra_calculate_risk_score"}
           => \A i \in 1..Len(call.incidents) :
                 Undated(call.incidents[i])
                 => ResultOutcome = OutcomeWith(WithDatedNow(call.incidents, i))
        /\ call.fn = "analyze_route"
           => \A i \in 1..Len(call.incidents) :
                 (Undated(call.incidents[i]) /\ call.incidents[i].time.k # "null")
                 => result.raised = OutcomeWith(WithDatedNow(call.incidents, i)).raised

\* the record carries its position only as flat latitude / longitude fields
FlatOnly(incident) == incident.point.k = "absent" /\ incident.flat.k = "val"

\* the same record with that position as nested {coordinates: [lon, lat]}
NestedTwin(incident) ==
    [incident EXCEPT !.point = PointAt(incident.flat.lat, incident.flat.lng),
                     !.flat = NoFlat]

\* C12: A service-request incident that carries its position only as flat
\* latitude/longitude fields is scored and contributes the same risk as the
\* same incident carrying that position as nested {coordinates: [lon, lat]}.
C12_FlatPositionScoredLikeNested ==
    (result.returned /\ call.incident_type = "311"
        /\ call.fn \in {"calculate_risk_score", "pra_calculate_risk_score"})
    => \A i \in 1..Len(call.incidents) :
          FlatOnly(call.incidents[i])
          => ResultOutcome
                = OutcomeWith([call.incidents EXCEPT ![i] = NestedTwin(call.incidents[i])])

\* What remains of C12: calculate_risk_score of path_risk_analysis.py does
\* score the flat form like the nested one.
C12_StandaloneScoresFlatPosition ==
    (result.returned /\ call.incident_type = "311"
        /\ call.fn = "pra_calculate_risk_score")
    => \A i \in 1..Len(call.incidents) :
          FlatOnly(call.incidents[i])
          => ResultOutcome
                = OutcomeWith([call.incidents EXCEPT ![i] = NestedTwin(call.incidents[i])])

\* a flat-only request next to the path that the standalone scorer counts
C12_StandaloneWitness ==
    /\ Returned("pra_calculate_risk_score")
    /\ Len(call.incidents) = 1
    /\ FlatOnly(call.incidents[1])
    /\ result.risk > 0

\* a classifier was called on a record of the given type
Classified(incident_type) ==
    /\ result.returned
    /\ call.fn \in {"assign_risk", "pra_assign_risk"}
    /\ call.incident_type = incident_type

\* the text the classifiers read, in upper case, has the keyword in it
Names(keyword) == Contains(keyword, upper(call.incidents[1].text))

\* C13: For a service-request incident, the classifier returns weight 1 when
\* the service name contains ENCAMPMENT and weight 3 when it contains
\* AGGRESSIVE or THREATENING (and not ENCAMPMENT), in both the strict
\* classifier (RiskScorer.assign_risk) and the permissive one.
C13_ServiceRequestWeights ==
    Classified("311") =>
        /\ Names("ENCAMPMENT") => result.risk = 1
        /\ ((Names("AGGRESSIVE") \/ Names("THREATENING")) /\ ~Names("ENCAMPMENT"))
           => result.risk = 3

\* What remains of C13: both classifiers give an encampment weight 1, and the
\* permissive one gives AGGRESSIVE or THREATENING weight 3; the strict one
\* gives them weight 1.
C13_WeightsAsClassified ==
    Classified("311") =>
        /\ Names("ENCAMPMENT") => result.risk = 1
        /\ ((Names("AGGRESSIVE") \/ Names("THREATENING")) /\ ~Names("ENCAMPMENT"))
           => result.risk = (IF call.fn = "pra_assign_risk" THEN 3 ELSE 1)

\* the keywords of the weight-3 and of the weight-2 set
HighRiskKeywords ==
    {"EXPLOSIVE FOUND", "EXPLOSION", "ROBBERY", "STRONGARM ROBBERY", "ASSAULT", "BATTERY"}
MediumRiskKeywords ==
    {"PURSE SNATCH", "INDECENT EXPOSURE", "FIGHT W/WEAPONS", "FIGHT NO WEAPON",
     "PERSON BREAKING IN", "BURGLARY"}

\* C14: For a crime-type incident whose description contains a keyword of
\* the weight-2 set and no weight-3 keyword, the classifier returns 2, in
\* both the strict classifier and the permissive one.
C14_MediumRiskCrimeWeights ==
    (Classified("crime") /\ (\E k \in MediumRiskKeywords : Names(k))
        /\ ~(\E k \in HighRiskKeywords : Names(k)))
    => result.risk = 2

\* What remains of C14: the strict classifier returns 2 for all of the
\* weight-2 set; the permissive one for PURSE SNATCH, INDECENT EXPOSURE and
\* (through BREAKING IN) PERSON BREAKING IN, and 1 for the rest.
C14_WeightsAsClassified ==
    (Classified("crime") /\ (\E k \in MediumRiskKeywords : Names(k))
        /\ ~(\E k \in HighRiskKeywords : Names(k)))
    => result.risk =
          (IF call.fn = "assign_risk" THEN 2
           ELSE IF Names("PURSE SNATCH") \/ Names("INDECENT EXPOSURE")
                   \/ Names("PERSON BREAKING IN") THEN 2
           ELSE 1)

\* the subtotals of route number i of the request being served, scored
\* with the given reference time
SubtotalsAt(i, current_time) ==
    LET path == routes[i].coordinates
        merge == merge_nearby_encampments(filter_closed_encampments(data.incidents_311))
    IN  [crime_risk |-> calculate_risk_score(path, data.crime_data, "crime",
                                             current_time).v,
         incident_risk |-> calculate_risk_score(path, merge.out, "311", current_time).v]

\* C15: When the reference time is omitted, a scoring call uses the current
\* time at the moment of that call as its reference time, so the elapsed
\* hours of a given incident grow between two calls made at different times:
\* every route of a request is scored with the hour of the request.
C15_ReferenceTimeIsTimeOfCall ==
    pc = "analyze" =>
        \A i \in 1..Len(analyzed_routes) :
            /\ analyzed_routes[i].crime_risk = SubtotalsAt(i, now).crime_risk
            /\ analyzed_routes[i].incident_risk = SubtotalsAt(i, now).incident_risk

\* What the backend does instead: every request, whenever it is made, is
\* scored with the hour at which main.py was loaded.
C15_ReferenceTimeIsTimeOfLoading ==
    pc = "analyze" =>
        \A i \in 1..Len(analyzed_routes) :
            /\ analyzed_routes[i].crime_risk = SubtotalsAt(i, StartHour).crime_risk
            /\ analyzed_routes[i].incident_risk = SubtotalsAt(i, StartHour).incident_risk

\* C16: Scoring the same incident lists and the same paths twice with the
\* same reference time returns identical totals and subtotals: the first
\* call leaves behind no state (in the scorer or in the incident records)
\* that changes the result of the second.  The second analyze_route is given
\* the records as the first one left them.
C16_SecondCallSameResult ==
    Returned("analyze_route") =>
        LET second == analyze_route(CoordsOf(call.path), call.crime_data, result.touched)
        IN  /\ second.raised = result.raised
            /\ second.total_risk = result.total_risk
            /\ second.crime_risk = result.crime_risk
            /\ second.incident_risk = result.incident_risk
            /\ second.filtered_incidents = result.filtered_incidents
            /\ second.merged_incidents = result.merged_incidents

\* the first call wrote into the records of an encampment that counts
C16_Witness ==
    /\ Returned("analyze_route")
    /\ ~result.raised
    /\ result.touched # call.incidents
    /\ result.incident_risk > 0
    /\ result.crime_risk > 0

\* C17: For every route analysis result, total risk equals crime subtotal
\* plus request subtotal, and all three values are non-negative.
C17_TotalIsSumOfSubtotals ==
    /\ (Returned("analyze_route") \/ Returned("path_risk_entry"))
    /\ ~result.raised
    => /\ result.total_risk = result.crime_risk + result.incident_risk
       /\ result.total_risk >= 0
       /\ result.crime_risk >= 0
       /\ result.incident_risk >= 0

\* an analysis where neither subtotal is zero
C17_Witness ==
    /\ Returned("analyze_route")
    /\ ~result.raised
    /\ result.crime_risk > 0
    /\ result.incident_risk > 0
    /\ result.total_risk > result.crime_risk

\* the least of the (squared) distances from the point to the vertices
NearestVertex(point, path) ==
    CHOOSE d \in {geodesic2(point, path[n]) : n \in 1..Len(path)} :
        \A n \in 1..Len(path) : d <= geodesic2(point, path[n])

\* C18: For a path with at least 2 vertices, the path-proximity function
\* returns exactly the minimum, over all vertices of the path, of the
\* distance from the incident point to that vertex (vertex-based, not
\* nearest-segment).  Distances are held squared, which keeps their order;
\* a record reported at the reference time shows the distance in its score.
C18_ProximityIsNearestVertex ==
    OneRecordCall /\ Len(call.path) >= 2 =>
        LET point == LatLng(call.incidents[1])
        IN  /\ min_distance_to_path(point, call.path) = NearestVertex(point, call.path)
            /\ ( /\ call.incidents[1].time = Ago(0)
                 /\ ~result.raised
                 /\ ~is_closed_encampment(call.incidents[1])
                 => result.risk = WeightInCall * WeightInCall * 24 * 24
                                  * distance_factor(NearestVertex(point, call.path)) )

\* a fresh robbery on the segment between the two vertices of PathA, one
\* grid step from either: scored by that step, not by a distance of zero
C18_Witness ==
    /\ OneRecordCall
    /\ call.path = PathA
    /\ call.incident_type = "crime"
    /\ LatLng(call.incidents[1]) = <<0, 1>>
    /\ call.incidents[1].time = Ago(0)
    /\ WeightInCall = 3
    /\ result.risk = 9 * 24 * 24 * distance_factor(1)
    /\ result.risk < 9 * RiskUnit

\* C19: Each entry of the ranked output identifies the original input
\* position (pathIndex) of the path it scores, so a ranked result can be
\* mapped back to the candidate path that was supplied.  In the answer of
\* calculate_routes the position is the entry's id, counted from 1.
C19_EntryIdentifiesInputPosition ==
    pc = "done" =>
        \A a \in 1..Len(top_3_routes) :
            /\ top_3_routes[a].id \in 1..Len(routes)
            /\ top_3_routes[a].coordinates
                   = CoordsOf(routes[top_3_routes[a].id].coordinates)

\* What the answer's id is: the entry's rank
C19_IdIsRank ==
    pc = "done" => \A a \in 1..Len(top_3_routes) : top_3_routes[a].id = a

\* What remains of C19 in find_lowest_risk_paths: path_index, counted from 0,
\* is the position the entry's path had in polypaths
C19_ApiKeepsPathIndex ==
    api_status = "ok" =>
        \A a \in 1..Len(path_risks) :
            /\ path_risks[a].path_index + 1 \in 1..Len(polypaths)
            /\ polypaths[path_risks[a].path_index + 1] = path_risks[a].path

\* within 0.001 degrees in both latitude and longitude
Near(a, b) ==
    /\ a.point.c[1] - b.point.c[1] \in (-ENCAMPMENT_MERGE_THRESHOLD)..ENCAMPMENT_MERGE_THRESHOLD
    /\ a.point.c[2] - b.point.c[2] \in (-ENCAMPMENT_MERGE_THRESHOLD)..ENCAMPMENT_MERGE_THRESHOLD

\* the requests of the call are open encampments, each with its position
OpenEncampmentsOnly ==
    /\ Returned("analyze_route")
    /\ ~result.raised
    /\ \A n \in 1..Len(call.incidents) :
          /\ is_encampment_311(call.incidents[n])
          /\ ~is_closed_encampment(call.incidents[n])
          /\ Located(call.incidents[n])

\* three encampments A, B, C with A~B and B~C but not A~C; b is B's place
ChainAround(b) ==
    /\ OpenEncampmentsOnly
    /\ Len(call.incidents) = 3
    /\ b \in 1..3
    /\ \A a \in (1..3) \ {b} : Near(call.incidents[a], call.incidents[b])
    /\ \E a, c \in (1..3) \ {b} : ~Near(call.incidents[a], call.incidents[c])

\* C20: During the merge, an open encampment that is within 0.001 degrees in
\* both latitude and longitude of any current member of a cluster joins that
\* cluster, even when it is farther than 0.001 degrees from the cluster's
\* first member (chaining), so a chain A-B-C with A~B and B~C but not A~C
\* forms one cluster of size 3.
C20_ChainFormsOneCluster ==
    \A b \in 1..3 : ChainAround(b) => result.merged_incidents = 1

\* What the merge does: a cluster is its first member and the encampments
\* after it that are near that member.  The chain forms one cluster when B
\* comes first and two otherwise.
C20_ClusterAroundFirstMember ==
    \A b \in 1..3 :
        ChainAround(b) => result.merged_incidents = (IF b = 1 THEN 1 ELSE 2)

C20_ChainSplit ==
    /\ ChainAround(2)
    /\ result.merged_incidents = 2

\* the encampments the merge clusters, as its first loop collects them
MergeInput == SplitLoop(call.incidents, <<>>, <<>>, <<>>)

\* the clusters the second loop forms, each the indices of its members
RECURSIVE ClustersFrom(_, _, _)
ClustersFrom(encampments, i, used) ==
    IF i > Len(encampments) THEN <<>>
    ELSE IF i \in used THEN ClustersFrom(encampments, i + 1, used)
    ELSE LET cluster == cluster_of(encampments, i, used)
         IN  <<cluster>> \o ClustersFrom(encampments, i + 1,
                                         used \cup {cluster[p] : p \in 1..Len(cluster)})

Clusters == ClustersFrom(MergeInput.encampments, 1, {})

\* the merge was called on a list whose encampments all could be collected
MergeCalled == Returned("merge_nearby_encampments") /\ ~MergeInput.raised

\* a timestamp as an instant: a missing one is before every other
TimeRank(incident) == IF incident.time.k = "iso" THEN incident.time.h ELSE -(10^6)

\* the encampments of the merge's output
OutEncampments == SelectSeq(result.out, is_encampment_311)

\* the k-th output is what C21 says of the k-th cluster
AsC21(k) ==
    LET encampments == MergeInput.encampments
        cluster == Clusters[k]
    IN  IF Len(cluster) > 1
        THEN \E p \in 1..Len(cluster) :
                /\ \A q \in 1..Len(cluster) :
                      TimeRank(encampments[cluster[q]]) <= TimeRank(encampments[cluster[p]])
                /\ OutEncampments[k]
                      = [encampments[cluster[p]] EXCEPT !._merged_count = Len(cluster)]
        ELSE /\ OutEncampments[k] = encampments[cluster[1]]
             /\ OutEncampments[k]._merged_count = NoKey

\* C21: For every cluster of more than one encampment, the merge outputs
\* exactly one record: the member with the greatest requested/updated
\* timestamp, annotated with the cluster's size; every cluster of size 1 is
\* output as its single member without a size annotation.
C21_ClusterOutputsLatestMember ==
    MergeCalled =>
        /\ ~result.raised
        /\ Len(OutEncampments) = Len(Clusters)
        /\ \A k \in 1..Len(Clusters) : AsC21(k)

\* What remains of C21: it holds of every merge that returns
C21_LatestMemberWhenReturned ==
    MergeCalled /\ ~result.raised =>
        /\ Len(OutEncampments) = Len(Clusters)
        /\ \A k \in 1..Len(Clusters) : AsC21(k)

\* a cluster whose latest member is not its first
C21_LatestIsNotFirst ==
    /\ MergeCalled /\ ~result.raised
    /\ \E k \in 1..Len(Clusters) :
          /\ Len(Clusters[k]) > 1
          /\ OutEncampments[k].point # MergeInput.encampments[Clusters[k][1]].point

\* the record as the merge's first loop leaves it, "_lat" and "_lng" set
Marked(incident) ==
    [incident EXCEPT !._lat = incident.point.c[2], !._lng = incident.point.c[1]]

\* the merge is given encampments only, no two of them (of those that have
\* a position) within the threshold of each other
SpreadEncampments ==
    /\ Returned("merge_nearby_encampments")
    /\ \A n \in 1..Len(call.incidents) : is_encampment_311(call.incidents[n])
    /\ \A a, b \in 1..Len(call.incidents) :
          (a # b /\ Located(call.incidents[a]) /\ Located(call.incidents[b]))
          => ~Near(call.incidents[a], call.incidents[b])

\* the output is the input list: the same records in the same order, as the
\* caller holds them after the call, none carrying a cluster size
ListUnchanged ==
    /\ ~result.raised
    /\ Len(result.out) = Len(call.incidents)
    /\ result.out = result.touched
    /\ \A n \in 1..Len(call.incidents) :
          /\ result.out[n].text = call.incidents[n].text
          /\ result.out[n].point = call.incidents[n].point
          /\ result.out[n].time = call.incidents[n].time
          /\ result.out[n].status = call.incidents[n].status
          /\ result.out[n]._merged_count = NoKey

NonEncampments(incidents) ==
    SelectSeq(incidents, LAMBDA incident : ~is_encampment_311(incident))

\* analyze_route was called with requests alone: what it returns or raises
\* is what the filter, the merge and the scoring of the merged list do
RequestsAnalyzed == Returned("analyze_route") /\ call.crime_data = <<>>

\* C23: Every non-encampment incident of the service-request stream appears
\* exactly once and unmodified in the output of the closed-encampment filter
\* followed by the merge, whatever its status and coordinates.
C23_NonEncampmentsPassThrough ==
    RequestsAnalyzed =>
        /\ ~result.raised
        /\ NonEncampments(result.out) = NonEncampments(call.incidents)

\* What remains of C23: it holds whenever the merge returns
C23_PassThroughWhenReturned ==
    Returned("analyze_route") /\ ~result.raised =>
        NonEncampments(result.out) = NonEncampments(call.incidents)

\* a non-encampment request is lost with the whole answer
C23_LostWithAnswer ==
    /\ RequestsAnalyzed
    /\ result.raised
    /\ NonEncampments(call.incidents) # <<>>

\* the size of the cluster an output record stands for
ClusterSize(incident) ==
    IF incident._merged_count = NoKey THEN 1 ELSE incident._merged_count

RECURSIVE SumOfSizes(_)
SumOfSizes(incidents) ==
    IF incidents = <<>> THEN 0
    ELSE ClusterSize(Head(incidents)) + SumOfSizes(Tail(incidents))

\* the open encampments of the call that have a position
OpenLocated ==
    SelectSeq(call.incidents,
              LAMBDA incident : /\ is_encampment_311(incident)
                                /\ ~is_closed_encampment(incident)
                                /\ Located(incident))

\* C24: In analyze_route the closed-encampment filter runs before the merge,
\* so a closed encampment never becomes a cluster representative, never
\* counts toward a cluster size, and never causes an open encampment to be
\* merged away.
C24_ClosedEncampmentsStayOutOfMerge ==
    Returned("analyze_route") /\ ~result.raised =>
        /\ \A n \in 1..Len(result.out) : ~is_closed_encampment(result.out[n])
        /\ SumOfSizes(SelectSeq(result.out, is_encampment_311)) = Len(OpenLocated)
        /\ \A a \in 1..Len(OpenLocated) :
              (\A b \in 1..Len(OpenLocated) :
                    a # b => ~Near(OpenLocated[a], OpenLocated[b]))
              => \E n \in 1..Len(result.out) : result.out[n] = Marked(OpenLocated[a])

\* an open encampment with a closed, later one within the threshold: the
\* open one is the whole output
C24_Witness ==
    /\ Returned("analyze_route") /\ ~result.raised
    /\ Len(call.incidents) = 2
    /\ Len(OpenLocated) = 1
    /\ \E n \in 1..2 :
          /\ is_closed_encampment(call.incidents[n])
          /\ Located(call.incidents[n])
          /\ Near(call.incidents[n], OpenLocated[1])
          /\ TimeRank(call.incidents[n]) > TimeRank(OpenLocated[1])
    /\ result.out = <<Marked(OpenLocated[1])>>

\* C25: Filtering, merging and scoring leave the caller-supplied incident
\* records unmodified (no key added, removed or changed), so scoring several
\* paths against the same incident snapshot, sequentially or in parallel,
\* writes no shared state.
C25_CallerRecordsUnmodified ==
    Returned("analyze_route") => result.touched = call.incidents

\* What is written: "_lat" and "_lng", into every open encampment that has a
\* position, and nothing else
C25_OnlyPositionKeysWritten ==
    Returned("analyze_route") /\ ~result.raised =>
        /\ Len(result.touched) = Len(call.incidents)
        /\ \A n \in 1..Len(call.incidents) :
              LET incident == call.incidents[n]
              IN  IF /\ is_encampment_311(incident)
                     /\ ~is_closed_encampment(incident)
                     /\ Located(incident)
                  THEN result.touched[n] = Marked(incident)
                  ELSE result.touched[n] = incident

C25_KeysAdded ==
    /\ Returned("analyze_route") /\ ~result.raised
    /\ Len(call.incidents) = 1
    /\ result.touched[1] = Marked(call.incidents[1])
    /\ result.touched[1] # call.incidents[1]

\* the encampments of the call that have at least two coordinates
LocatedEncampments ==
    SelectSeq(call.incidents,
              LAMBDA incident : is_encampment_311(incident) /\ Located(incident))

\* every index of the collected encampments is in exactly one cluster
ClustersPartition ==
    \A j \in 1..Len(MergeInput.encampments) :
        \E k \in 1..Len(Clusters) :
            /\ \E p \in 1..Len(Clusters[k]) : Clusters[k][p] = j
            /\ \A l \in 1..Len(Clusters) :
                  (\E p \in 1..Len(Clusters[l]) : Clusters[l][p] = j) => l = k
            /\ \A p, q \in 1..Len(Clusters[k]) :
                  (Clusters[k][p] = j /\ Clusters[k][q] = j) => p = q

\* C26: The merge partitions its input: every input encampment that has at
\* least two coordinates belongs to exactly one cluster, and the sum of
\* cluster sizes over the output encampments (the size annotation, or 1 when
\* absent) equals the number of such input encampments.
C26_MergePartitionsInput ==
    Returned("merge_nearby_encampments") =>
        /\ ~result.raised
        /\ ClustersPartition
        /\ SumOfSizes(OutEncampments) = Len(LocatedEncampments)

\* What remains of C26: it holds of every merge that returns
C26_PartitionWhenReturned ==
    Returned("merge_nearby_encampments") /\ ~result.raised =>
        /\ ClustersPartition
        /\ Len(MergeInput.encampments) = Len(LocatedEncampments)
        /\ SumOfSizes(OutEncampments) = Len(LocatedEncampments)

C26_PartitionOfThree ==
    /\ Returned("merge_nearby_encampments") /\ ~result.raised
    /\ Len(LocatedEncampments) = 3
    /\ Len(OutEncampments) = 2
    /\ SumOfSizes(OutEncampments) = 3

\* the list in another order
Reorderings(list) ==
    { [n \in 1..Len(list) |-> list[f[n]]] :
        f \in {g \in [1..Len(list) -> 1..Len(list)] :
                 \A a, b \in 1..Len(list) : a # b => g[a] # g[b]} }

\* how many of the records stand for a cluster of size n
CountOfSize(incidents, n) ==
    Cardinality({k \in 1..Len(incidents) : ClusterSize(incidents[k]) = n})

\* the merge of `list` returns and has the cluster sizes of the call's result
SameClusterSizes(list) ==
    LET other == merge_nearby_encampments(list)
        encampments == SelectSeq(other.out, is_encampment_311)
    IN  /\ ~other.raised
        /\ Len(encampments) = Len(OutEncampments)
        /\ \A n \in 1..Len(call.incidents) :
              CountOfSize(encampments, n) = CountOfSize(OutEncampments, n)

\* C27: The outcome of the merge does not depend on the order of the input
\* list: every permutation of the same set of encampments yields the same
\* number of output encampments and the same multiset of cluster sizes.
C27_MergeIgnoresOrder ==
    Returned("merge_nearby_encampments") /\ ~result.raised =>
        \A list \in Reorderings(call.incidents) : SameClusterSizes(list)

\* being near is transitive among the encampments of the call
NearIsTransitive ==
    \A a, b, c \in 1..Len(LocatedEncampments) :
        ( /\ Near(LocatedEncampments[a], LocatedEncampments[b])
          /\ Near(LocatedEncampments[b], LocatedEncampments[c]) )
        => Near(LocatedEncampments[a], LocatedEncampments[c])

\* What remains of C27: the order does not matter where being near is
\* transitive, so that the clusters do not depend on which member comes first
C27_OrderIgnoredWhereNearIsTransitive ==
    ( /\ Returned("merge_nearby_encampments")
      /\ \A n \in 1..Len(call.incidents) : call.incidents[n].point.k # "null"
      /\ \A n \in 1..Len(call.incidents) : call.incidents[n].time.k # "null"
      /\ NearIsTransitive )
    => \A list \in Reorderings(call.incidents) : SameClusterSizes(list)

\* the chain given with its middle first forms one cluster; with an end
\* first it forms two
C27_OrderMatters ==
    /\ Returned("merge_nearby_encampments") /\ ~result.raised
    /\ Len(call.incidents) = 3
    /\ Len(OutEncampments) = 1
    /\ \E list \in Reorderings(call.incidents) :
          Len(merge_nearby_encampments(list).out) = 2

\* no two encampments of the merge's output are near each other
OutputSpread ==
    \A a, b \in 1..Len(OutEncampments) :
        a # b => ~Near(OutEncampments[a], OutEncampments[b])

\* merging the output again gives the output
MergedAgain ==
    LET again == merge_nearby_encampments(result.out)
    IN  ~again.raised /\ again.out = result.out

\* C28: The merge is idempotent: in any merge output no two encampments are
\* within 0.001 degrees of each other in both latitude and longitude, so
\* applying the merge to its own output merges nothing further.
C28_MergeIsIdempotent ==
    Returned("merge_nearby_encampments") /\ ~result.raised =>
        OutputSpread /\ MergedAgain

\* What remains of C28: it holds where being near is transitive among the
\* encampments given
C28_IdempotentWhereNearIsTransitive ==
    Returned("merge_nearby_encampments") /\ ~result.raised /\ NearIsTransitive =>
        OutputSpread /\ MergedAgain

\* two clusters whose representatives are within the threshold
C28_NearRepresentatives ==
    /\ Returned("merge_nearby_encampments") /\ ~result.raised
    /\ Len(OutEncampments) = 2
    /\ Near(OutEncampments[1], OutEncampments[2])
    /\ Len(merge_nearby_encampments(result.out).out) = 1

\* C29: A route-ranking request always scores against a crime list and a
\* service-request list that were stored by the same fetch cycle
\* (fetch_all_data), with the fetch time reported for that same cycle, even
\* when the scheduler's periodic fetch runs concurrently with the request.
C29_SnapshotOfOneFetchCycle ==
    pc \in {"analyze", "done"} => data_during = "idle"

\* What remains of C29: the lists and the time a request works with are
\* those the fetcher held when get_data() was called, whatever is fetched
\* while the routes are analysed
C29_SnapshotKeptDuringRequest ==
    [][ (pc = "analyze" /\ pc' \in {"analyze", "done"}) =>
            /\ data'.crime_data = data.crime_data
            /\ data'.fetch_time = data.fetch_time
            /\ Len(data'.incidents_311) = Len(data.incidents_311) ]_vars

\* a request scoring the crimes of one cycle against the requests of the
\* cycle before
C29_MixedSnapshot ==
    /\ pc = "done"
    /\ data_during = "crime_data"
    /\ Len(top_3_routes) > 0

\* the coordinate sequences among the routes of the request
Alternatives == {routes[n].coordinates : n \in 1..Len(routes)}

\* the routes of the answer have pairwise distinct coordinate sequences
TopRoutesDistinct ==
    \A a, b \in 1..Len(top_3_routes) :
        a # b => top_3_routes[a].coordinates # top_3_routes[b].coordinates

\* the routes are k pairwise distinct alternatives and copies of the first
DistinctThenCopies(k) ==
    /\ \A a, b \in 1..k : a # b => routes[a].coordinates # routes[b].coordinates
    /\ \A n \in (k + 1)..Len(routes) : routes[n].coordinates = routes[1].coordinates

\* C30: Whenever the routing service returns at least three alternatives
\* with pairwise distinct coordinate sequences, the three routes returned by
\* calculate_routes have pairwise distinct coordinate sequences: the copies
\* created to pad the candidate list up to 10 never displace a distinct
\* alternative from the top 3.
C30_TopThreeAreDistinctAlternatives ==
    ( /\ pc = "done"
      /\ Cardinality(Alternatives) >= 3
      /\ \E k \in 3..Len(routes) : DistinctThenCopies(k) )
    => Len(top_3_routes) = TopK /\ TopRoutesDistinct

\* What remains of C30: of pairwise distinct alternatives only the first,
\* the one the copies are made of, can appear more than once in the answer
C30_OnlyFirstAlternativeRepeats ==
    (pc = "done" /\ \E k \in 1..Len(routes) : DistinctThenCopies(k)) =>
        \A a, b \in 1..Len(top_3_routes) :
            (a # b /\ top_3_routes[a].coordinates = top_3_routes[b].coordinates)
            => top_3_routes[a].coordinates = CoordsOf(routes[1].coordinates)

\* three distinct alternatives, and the answer is the first of them thrice
C30_CopiesFillTheAnswer ==
    /\ pc = "done"
    /\ Cardinality(Alternatives) >= 3
    /\ Len(routes) = NumRoutes
    /\ \A a \in 1..Len(top_3_routes) :
          top_3_routes[a].coordinates = CoordsOf(routes[1].coordinates)

====
